---- MODULE Spec2Model ----
(***************************************************************************)
(* Itinerary quotation form: the submission endpoint, the in-memory store, *)
(* the form's submit path and the special-terms template renderer.         *)
(***************************************************************************)
EXTENDS Integers, Sequences, FiniteSets, TLC

(***************************************************************************)
(* JavaScript values.  Every value carries its runtime type in t, so that  *)
(* values of different types can be compared.                              *)
(***************************************************************************)
Undefined == [t |-> "undefined"]
Null == [t |-> "null"]
Str(s) == [t |-> "string", s |-> s]
Num(n) == [t |-> "number", n |-> n]
\* JSON.parse("1e999"): a number that is not finite
Infinity == [t |-> "number", inf |-> TRUE]
\* what parseInt gives for text that is no number
NaN == [t |-> "number", nan |-> TRUE]
Bool(b) == [t |-> "boolean", b |-> b]
Arr(a) == [t |-> "array", a |-> a]
Obj(o) == [t |-> "object", o |-> o]

IsFinite(v) == v.t = "number" /\ "n" \in DOMAIN v

\* obj[key], undefined when the key is absent
Get(o, key) == IF key \in DOMAIN o THEN o[key] ELSE Undefined

Digit == <<"0", "1", "2", "3", "4", "5", "6", "7", "8", "9">>

\* String(i) for a small array index
IndexStr(i) == Digit[i + 1]

(***************************************************************************)
(* zod, as far as the two schemas use it.  A parse returns the issues in   *)
(* the order zod reports them and the parsed value (unknown keys of an     *)
(* object are stripped).                                                   *)
(***************************************************************************)
zString(min, msg) == [k |-> "string", min |-> min, msg |-> msg]
zNumber(hasMin, min, msg) == [k |-> "number", hasMin |-> hasMin, min |-> min, msg |-> msg]
zBoolean == [k |-> "boolean"]
zNullable(inner) == [k |-> "nullable", inner |-> inner]
zOptional(inner) == [k |-> "optional", inner |-> inner]
\* mutant: an array schema without its min
zArrayAnyLength(elem, min, msg) == [k |-> "array", elem |-> elem, min |-> 0, msg |-> msg]
zArray(elem, min, msg) == [k |-> "array", elem |-> elem, min |-> min, msg |-> msg]
zObject(keys, shape) == [k |-> "object", keys |-> keys, shape |-> shape]
\* schema.refine((file) => file !== null, msg)
zRefineNotNull(inner, msg) == [k |-> "refineNotNull", inner |-> inner, msg |-> msg]

Issue(path, message) == [path |-> path, message |-> message]

\* zod's invalid_type message
InvalidType(expected, v, path) ==
    Issue(path, IF v.t = "undefined" THEN "Required"
                ELSE "Expected " \o expected \o ", received " \o v.t)

Parsed(issues, aborted, value) == [issues |-> issues, aborted |-> aborted, value |-> value]

RECURSIVE ZodParse(_, _, _)
RECURSIVE ZodParseKeys(_, _, _, _)
RECURSIVE ZodParseItems(_, _, _, _)

\* the fields of an object schema from key number i on, in schema order
ZodParseKeys(schema, o, path, i) ==
    IF i > Len(schema.keys) THEN Parsed(<<>>, FALSE, <<>>)
    ELSE LET key == schema.keys[i]
             head == ZodParse(schema.shape[key], Get(o, key), Append(path, key))
             rest == ZodParseKeys(schema, o, path, i + 1)
             kept == IF key \in DOMAIN o /\ ~head.aborted
                     THEN (key :> head.value) ELSE <<>>
         IN  Parsed(head.issues \o rest.issues,
                    head.aborted \/ rest.aborted,
                    kept @@ rest.value)

\* the elements of an array from element number i on (1-based here, 0-based in paths)
ZodParseItems(schema, a, path, i) ==
    IF i > Len(a) THEN Parsed(<<>>, FALSE, <<>>)
    ELSE LET head == ZodParse(schema.elem, a[i], Append(path, IndexStr(i - 1)))
             rest == ZodParseItems(schema, a, path, i + 1)
         IN  Parsed(head.issues \o rest.issues,
                    head.aborted \/ rest.aborted,
                    <<head.value>> \o rest.value)

ZodParse(schema, v, path) ==
    CASE schema.k = "string" ->
           IF v.t # "string" THEN Parsed(<<InvalidType("string", v, path)>>, TRUE, v)
           ELSE IF Len(v.s) < schema.min THEN Parsed(<<Issue(path, schema.msg)>>, FALSE, v)
           ELSE Parsed(<<>>, FALSE, v)
      [] schema.k = "number" ->
           IF v.t # "number" THEN Parsed(<<InvalidType("number", v, path)>>, TRUE, v)
           ELSE IF v = NaN
                THEN Parsed(<<Issue(path, "Expected number, received nan")>>, TRUE, v)
           ELSE IF schema.hasMin /\ IsFinite(v) /\ v.n < schema.min
                THEN Parsed(<<Issue(path, schema.msg)>>, FALSE, v)
           ELSE Parsed(<<>>, FALSE, v)
      [] schema.k = "boolean" ->
           IF v.t # "boolean" THEN Parsed(<<InvalidType("boolean", v, path)>>, TRUE, v)
           ELSE Parsed(<<>>, FALSE, v)
      [] schema.k = "nullable" ->
           IF v.t = "null" THEN Parsed(<<>>, FALSE, v)
           ELSE ZodParse(schema.inner, v, path)
      [] schema.k = "optional" ->
           IF v.t = "undefined" THEN Parsed(<<>>, FALSE, v)
           ELSE ZodParse(schema.inner, v, path)
      [] schema.k = "array" ->
           IF v.t # "array" THEN Parsed(<<InvalidType("array", v, path)>>, TRUE, v)
           ELSE LET small == IF Len(v.a) < schema.min
                             THEN <<Issue(path, schema.msg)>> ELSE <<>>
                    items == ZodParseItems(schema, v.a, path, 1)
                IN  Parsed(small \o items.issues, items.aborted, Arr(items.value))
      [] schema.k = "object" ->
           IF v.t # "object" THEN Parsed(<<InvalidType("object", v, path)>>, TRUE, v)
           ELSE LET fields == ZodParseKeys(schema, v.o, path, 1)
                IN  Parsed(fields.issues, fields.aborted, Obj(fields.value))
      [] schema.k = "refineNotNull" ->
           LET inner == ZodParse(schema.inner, v, path)
           IN  IF inner.aborted THEN inner
               ELSE IF inner.value.t = "null"
                    THEN Parsed(inner.issues \o <<Issue(path, schema.msg)>>, FALSE, inner.value)
               ELSE inner

\* the { filename, size, type, data } object of both schemas
fileSchema ==
    zObject(<<"filename", "size", "type", "data">>,
            [filename |-> zString(0, ""), size |-> zNumber(FALSE, 0, ""),
             type |-> zString(0, ""), data |-> zString(0, "")])

SchemaKeys ==
    <<"starting_date", "meals_provided", "flight_information", "number_of_delegates",
      "number_of_tour_leaders", "hotel_selection", "tour_fare", "single_supplement",
      "special_terms_enabled", "special_terms", "tour_fair_includes",
      "tour_fair_excludes", "uploaded_file", "markdown_content",
      "file_size_limit_enabled", "itinerary_language">>

\* the schema the endpoint parses with
travelBookingSchema ==
    zObject(SchemaKeys,
            [starting_date |-> zNullable(zString(0, "")),
             meals_provided |-> zBoolean,
             flight_information |-> zString(0, ""),
             number_of_delegates |-> zNumber(FALSE, 0, ""),
             number_of_tour_leaders |-> zNumber(FALSE, 0, ""),
             hotel_selection |-> zString(0, ""),
             tour_fare |-> zNullable(zNumber(FALSE, 0, "")),
             single_supplement |-> zNullable(zNumber(FALSE, 0, "")),
             special_terms_enabled |-> zBoolean,
             special_terms |-> zArray(zString(0, ""), 0, ""),
             tour_fair_includes |-> zArray(zString(0, ""), 0, ""),
             tour_fair_excludes |-> zArray(zString(0, ""), 0, ""),
             uploaded_file |-> zNullable(fileSchema),
             markdown_content |-> zString(0, ""),
             file_size_limit_enabled |-> zBoolean,
             itinerary_language |-> zString(0, "")])

\* the schema the form's resolver parses with
travelBookingFormSchema ==
    zObject(SchemaKeys,
            [starting_date |-> zOptional(zString(0, "")),
             meals_provided |-> zBoolean,
             flight_information |-> zOptional(zString(0, "")),
             number_of_delegates |-> zNumber(TRUE, 1, "At least 1 delegate is required"),
             number_of_tour_leaders |-> zNumber(TRUE, 1, "At least 1 tour leader is required"),
             hotel_selection |-> zString(1, "Hotel selection is required"),
             tour_fare |-> zNullable(zNumber(FALSE, 0, "")),
             single_supplement |-> zNullable(zNumber(FALSE, 0, "")),
             special_terms_enabled |-> zBoolean,
             special_terms |-> zArray(zString(0, ""), 0, ""),
             tour_fair_includes |->
                 zArray(zString(0, ""), 1, "At least one include item is required"),
             tour_fair_excludes |->
                 zArray(zString(0, ""), 1, "At least one exclude item is required"),
             uploaded_file |->
                 zRefineNotNull(zNullable(fileSchema), "Document upload is required"),
             markdown_content |-> zOptional(zString(0, "")),
             file_size_limit_enabled |-> zBoolean,
             itinerary_language |->
                 zString(1, "Please select or enter an itinerary language")])

\* schema.parse(data) throws a ZodError exactly when there are issues
ZodThrows(schema, v) == ZodParse(schema, v, <<>>).issues # <<>>

RECURSIVE JoinPath(_)
\* err.path.join('.')
JoinPath(path) ==
    IF path = <<>> THEN ""
    ELSE IF Len(path) = 1 THEN path[1]
    ELSE path[1] \o "." \o JoinPath(Tail(path))

\* mutant: only the first issue is reported
ErrorListFirstOnly(issues) ==
    [i \in 1..1 |-> [field |-> JoinPath(issues[i].path), message |-> issues[i].message]]

\* error.errors.map(err => ({ field: err.path.join('.'), message: err.message }))
ErrorList(issues) ==
    [i \in 1..Len(issues) |-> [field |-> JoinPath(issues[i].path),
                               message |-> issues[i].message]]

RECURSIVE JSONStringify(_)
\* JSON.stringify(v), given as the JSON value its text denotes: a number that is
\* not finite is written as null, a property whose value is undefined is left
\* out, an undefined array element is written as null
JSONStringify(v) ==
    CASE v.t = "number" -> IF IsFinite(v) THEN v ELSE Null
      [] v.t = "array" ->
           Arr([i \in 1..Len(v.a) |->
                  IF v.a[i].t = "undefined" THEN Null ELSE JSONStringify(v.a[i])])
      [] v.t = "object" ->
           Obj([key \in {x \in DOMAIN v.o : v.o[x].t # "undefined"} |->
                  JSONStringify(v.o[key])])
      [] OTHER -> v


RECURSIVE NumStr(_)
\* `${n}` for a natural number
NumStr(n) == IF n < 10 THEN Digit[n + 1] ELSE NumStr(n \div 10) \o Digit[(n % 10) + 1]

With(o, key, v) == [x \in DOMAIN o \cup {key} |-> IF x = key THEN v ELSE o[x]]
Without(o, key) == [x \in DOMAIN o \ {key} |-> o[x]]

(***************************************************************************)
(* Bounds and inputs                                                       *)
(***************************************************************************)
\* requests the endpoint serves in one run, concurrently
MaxRequests == 2

Requests == 1..MaxRequests

FileA ==
    Obj([filename |-> Str("a.pdf"), size |-> Num(100), type |-> Str("application/pdf"),
         data |-> Str("QQ==")])

\* a body every field of which has the type the endpoint's schema asks for
BaseBooking ==
    [starting_date |-> Str("2024-12-25"), meals_provided |-> Bool(TRUE),
     flight_information |-> Str("SQ123"), number_of_delegates |-> Num(2),
     number_of_tour_leaders |-> Num(1), hotel_selection |-> Str("Hilton"),
     tour_fare |-> Num(1500), single_supplement |-> Null,
     special_terms_enabled |-> Bool(FALSE), special_terms |-> Arr(<<>>),
     tour_fair_includes |-> Arr(<<Str("x")>>), tour_fair_excludes |-> Arr(<<Str("y")>>),
     uploaded_file |-> FileA, markdown_content |-> Str(""),
     file_size_limit_enabled |-> Bool(TRUE), itinerary_language |-> Str("English")]

\* bodies that differ from BaseBooking in values the schema's types allow
TypedBodies ==
    { Obj(BaseBooking),
      Obj(With(BaseBooking, "uploaded_file", Null)),
      Obj(With(With(With(BaseBooking, "itinerary_language", Str("")),
                    "tour_fair_includes", Arr(<<>>)),
               "tour_fair_excludes", Arr(<<>>))),
      Obj(With(BaseBooking, "tour_fare", Infinity)),
      Obj(With(BaseBooking, "id", Str("42"))) }

\* bodies with a missing field or a field of another type
IllTypedBodies ==
    { Obj(Without(BaseBooking, "itinerary_language")),
      Obj(With(BaseBooking, "itinerary_language", Num(7))),
      Obj(With(BaseBooking, "uploaded_file",
               Obj([filename |-> Str("a.pdf"), size |-> Str("100"),
                    type |-> Str("application/pdf")]))),
      Obj(With(BaseBooking, "tour_fair_includes", Arr(<<Num(1), Str("x"), Null>>))),
      Obj(With(With(BaseBooking, "starting_date", Num(20241225)), "meals_provided", Str("yes"))),
      Obj(<<>>),
      Arr(<<>>) }

RequestBodies == TypedBodies \cup IllTypedBodies

WebhookUrl == Str("https://n8n.example/webhook/travel")

\* process.env: a variable is unset, set to the empty string, or set to a URL
Environments ==
    { [N8N_WEBHOOK_URL |-> Undefined, WEBHOOK_URL |-> Undefined],
      [N8N_WEBHOOK_URL |-> WebhookUrl, WEBHOOK_URL |-> Undefined],
      [N8N_WEBHOOK_URL |-> Str(""), WEBHOOK_URL |-> WebhookUrl] }

\* what the forwarding target answers: a status, and a body that is read
\* afterwards and is JSON, other text, or fails while it is read
DownstreamStatuses == {200, 500}
DownstreamBodies ==
    { [readable |-> TRUE, text |-> "{\"received\":true}",
       json |-> Obj([received |-> Bool(TRUE)])],
      [readable |-> TRUE, text |-> "upstream down", json |-> Undefined],
      [readable |-> FALSE, text |-> "", json |-> Undefined] }
DownstreamResponses == [status : DownstreamStatuses]
NoResponse == [status |-> 0]

VARIABLES
    env,            \* process.env
    pc,             \* where each request's handler stands
    body,           \* req.body of each request
    validatedData,  \* the parse result of each request
    outbound,       \* the fetch calls each request has made
    fetchPromise,   \* the state of the promise each request's fetch returned
    response,       \* the forwarding target's answer to each request
    sent,           \* the responses written to each request's res
    travelBookings, \* MemStorage.travelBookings
    now,            \* the clock new Date() reads
    returned,       \* the calls of createTravelBooking so far: argument and result
    lookup,         \* the last call of getTravelBooking: argument and result
    page,           \* the page open in the browser
    editsInFlight,  \* the edits made since the request in flight was started
    values,         \* the React form's field values
    fileSizeLimit,  \* the React form's size-limit state
    errors,         \* formState.errors
    submitCount,    \* formState.submitCount
    isPending,      \* submitMutation.isPending
    mutations,      \* the bodies of the React form's requests in flight
    customItems,    \* the texts of the custom items of each list
    files,          \* documentUpload.files
    fileInfoHidden, \* whether the file-info box is hidden
    fileSizeLimitChecked, \* fileSizeLimitToggle.checked
    errorGroups,    \* the form groups that carry the error class
    statusMessages, \* the last status message shown
    submitDisabled, \* submitBtn.disabled
    handlers,       \* the calls of handleFormSubmit that stand at an await
    items,          \* the items of the template list
    parts,          \* the parts each item was rendered from
    rendered,       \* whether the list has been rendered
    counters,       \* includesCounter and excludesCounter
    rows,           \* the letters on the custom rows of each list, in document order
    error,          \* FileUpload's error state
    isProcessing,   \* FileUpload's isProcessing state
    fileInput,      \* the files of FileUpload's input element
    reading,        \* the file fileToBase64 is reading
    clock,          \* the clock Date.now() reads in the browser
    storage,        \* localStorage's item under FORM_STORAGE_KEY
    formValues,     \* the values of the autosaving page's form
    isRestoringData,           \* the autosaving page's state of that name
    isSubmittingSuccessfully,  \* the autosaving page's state of that name
    hasRestoredData,           \* the autosaving page's state of that name
    hadFileBeforeRestore,      \* the autosaving page's state of that name
    saveTimer,      \* the values the pending save timer was set with
    flagTimer,      \* whether onSuccess's timer is pending
    renderDue,      \* whether state was set that React has yet to render
    restoreDue,     \* whether that render re-runs the restoring effect
    dragCounter,    \* FileUpload's dragCounter.current
    dragActive,     \* FileUpload's dragActive state
    dragOver,       \* FileUpload's dragOver state
    enters,         \* dragenter events the drop zone got since the last drop
    leaves,         \* dragleave events the drop zone got since the last drop
    component,      \* the list component that is mounted on its own
    listItems,      \* the items prop of DynamicList
    newItemText,        \* the newItem state of DynamicList, newItemText of EditableTemplateList
    editable        \* for every item DynamicList shows, whether it is shown as an Input

serverVars == <<env, pc, body, validatedData, outbound, fetchPromise, response, sent>>
storeVars == <<travelBookings, now, returned, lookup>>
browserVars == <<page, editsInFlight>>
reactVars == <<values, fileSizeLimit, errors, submitCount, isPending, mutations>>
vanillaVars == <<customItems, files, fileInfoHidden, fileSizeLimitChecked, errorGroups,
                 statusMessages, submitDisabled, handlers>>
templateVars == <<items, parts, rendered>>
labelVars == <<counters, rows>>
uploadVars == <<error, isProcessing, fileInput, reading>>
draftVars == <<clock, storage, formValues, isRestoringData, isSubmittingSuccessfully,
               hasRestoredData, hadFileBeforeRestore, saveTimer, flagTimer, renderDue,
               restoreDue>>
dragVars == <<dragCounter, dragActive, dragOver, enters, leaves>>
listVars == <<component, listItems, newItemText, editable>>
widgetVars == <<labelVars, uploadVars, dragVars, draftVars, listVars>>

InitServer ==
    /\ env \in Environments
    /\ pc = [r \in Requests |-> "idle"]
    /\ body = [r \in Requests |-> Undefined]
    /\ validatedData = [r \in Requests |-> Undefined]
    /\ outbound = [r \in Requests |-> <<>>]
    /\ fetchPromise = [r \in Requests |-> "none"]
    /\ response = [r \in Requests |-> NoResponse]
    /\ sent = [r \in Requests |-> <<>>]

InitStore ==
    /\ travelBookings = <<>>
    /\ now = 0
    /\ returned = <<>>
    /\ lookup = [id |-> "", result |-> Undefined]

(***************************************************************************)
(* POST /api/travel-booking                                                *)
(***************************************************************************)
\* process.env.N8N_WEBHOOK_URL || process.env.WEBHOOK_URL
webhookUrl ==
    IF env.N8N_WEBHOOK_URL.t = "string" /\ env.N8N_WEBHOOK_URL.s # ""
    THEN env.N8N_WEBHOOK_URL ELSE env.WEBHOOK_URL

Truthy(v) == v.t = "string" /\ v.s # ""

\* response.ok
Ok(status) == status >= 200 /\ status <= 299

\* mutant: the payload is written twice
ResJsonTwice(r, code, payload) ==
    sent' = [sent EXCEPT ![r] = Append(Append(@, [status |-> code, body |-> payload]),
                                       [status |-> code, body |-> payload])]

\* res.json(payload) and res.status(code).json(payload): the payload goes out
\* as JSON text
ResJson(r, code, payload) ==
    sent' = [sent EXCEPT ![r] = Append(@, [status |-> code, body |-> payload])]

ValidationErrorBody(issues) ==
    [success |-> FALSE, message |-> "Validation error", errors |-> ErrorList(issues)]

ForwardedBody(result) ==
    [success |-> TRUE,
     message |-> "Travel booking submitted successfully to webhook",
     webhookResponse |-> JSONStringify(result)]

DeliveryFailedBody(data, errorMessage) ==
    [success |-> TRUE,
     message |-> "Travel booking received successfully (webhook delivery failed)",
     data |-> JSONStringify(data),
     webhookError |-> errorMessage]

NoWebhookBody(data) ==
    [success |-> TRUE,
     message |-> "Travel booking received successfully (no webhook configured)",
     data |-> JSONStringify(data)]

\* fetch(webhookUrl, { method, headers, body })
FetchCall(data) ==
    [url |-> webhookUrl.s, method |-> "POST",
     headers |-> [x \in {"Content-Type"} |-> "application/json"],
     body |-> JSONStringify(data)]

\* travelBookingSchema.parse(req.body), for each body a request can carry
ParsedBodies == [b \in RequestBodies |-> ZodParse(travelBookingSchema, b, <<>>)]

\* The handler up to its first suspension point: parse the body; on a ZodError
\* answer 400; otherwise start the forward when a URL is configured, or answer
\* at once when none is.
PostTravelBooking(r, b) ==
    /\ pc[r] = "idle"
    /\ body' = [body EXCEPT ![r] = b]
    /\ LET parsed == ParsedBodies[b]
       IN  IF parsed.issues # <<>>
           THEN /\ ResJson(r, 400, ValidationErrorBody(parsed.issues))
                /\ pc' = [pc EXCEPT ![r] = "done"]
                /\ UNCHANGED <<validatedData, outbound, fetchPromise>>
           ELSE /\ validatedData' = [validatedData EXCEPT ![r] = parsed.value]
                /\ IF Truthy(webhookUrl)
                   THEN /\ outbound' = [outbound EXCEPT ![r] = Append(@, FetchCall(parsed.value))]
                        /\ fetchPromise' = [fetchPromise EXCEPT ![r] = "pending"]
                        /\ pc' = [pc EXCEPT ![r] = "awaitFetch"]
                        /\ UNCHANGED sent
                   ELSE /\ ResJson(r, 200, NoWebhookBody(parsed.value))
                        /\ pc' = [pc EXCEPT ![r] = "done"]
                        /\ UNCHANGED <<outbound, fetchPromise>>
    /\ UNCHANGED <<env, response>>

\* mutant: the forward's failure reaches the outer catch
WebhookCatchRethrows(r, errorMessage) ==
    /\ ResJson(r, 500, [success |-> FALSE, message |-> "Internal server error",
                        error |-> errorMessage])
    /\ pc' = [pc EXCEPT ![r] = "done"]

\* mutant: the validated payload is kept in one place for all requests
WebhookCatchShared(r, errorMessage) ==
    /\ ResJson(r, 200, DeliveryFailedBody(validatedData[1], errorMessage))
    /\ pc' = [pc EXCEPT ![r] = "done"]

\* catch (webhookError): still answer success, with the error's message
WebhookCatch(r, errorMessage) ==
    /\ ResJson(r, 200, DeliveryFailedBody(validatedData[r], errorMessage))
    /\ pc' = [pc EXCEPT ![r] = "done"]

\* fetch rejects: the target cannot be reached
FetchRejects(r) ==
    /\ pc[r] = "awaitFetch"
    /\ fetchPromise' = [fetchPromise EXCEPT ![r] = "rejected"]
    /\ WebhookCatch(r, "fetch failed")
    /\ UNCHANGED <<env, body, validatedData, outbound, response>>

\* fetch resolves with the target's response; the handler goes on to read it
FetchResolves(r, resp) ==
    /\ pc[r] = "awaitFetch"
    /\ fetchPromise' = [fetchPromise EXCEPT ![r] = "fulfilled"]
    /\ response' = [response EXCEPT ![r] = resp]
    /\ pc' = [pc EXCEPT ![r] = IF Ok(resp.status) THEN "awaitJson" ELSE "awaitText"]
    /\ UNCHANGED <<env, body, validatedData, outbound, sent>>

\* !response.ok: await response.text().catch(() => 'Unknown error'), then throw
TextSettles(r, payload) ==
    /\ pc[r] = "awaitText"
    /\ LET errorText == IF payload.readable THEN payload.text ELSE "Unknown error"
       IN  WebhookCatch(r, "Webhook failed: " \o NumStr(response[r].status)
                           \o " - " \o errorText)
    /\ UNCHANGED <<env, body, validatedData, outbound, fetchPromise, response>>

\* await response.json().catch(() => ({ success: true })), then answer
JsonSettles(r, payload) ==
    /\ pc[r] = "awaitJson"
    /\ LET result == IF payload.readable /\ payload.json.t # "undefined"
                     THEN payload.json
                     ELSE Obj([success |-> Bool(TRUE)])
       IN  ResJson(r, 200, ForwardedBody(result))
    /\ pc' = [pc EXCEPT ![r] = "done"]
    /\ UNCHANGED <<env, body, validatedData, outbound, fetchPromise, response>>

NextServer ==
    \/ \E r \in Requests, b \in RequestBodies : PostTravelBooking(r, b)
    \/ \E r \in Requests : FetchRejects(r)
    \/ \E r \in Requests, resp \in DownstreamResponses : FetchResolves(r, resp)
    \/ \E r \in Requests, payload \in DownstreamBodies : TextSettles(r, payload)
    \/ \E r \in Requests, payload \in DownstreamBodies : JsonSettles(r, payload)


(***************************************************************************)
(* MemStorage                                                              *)
(***************************************************************************)
\* bookings one run of the store creates
MaxBookings == 3
\* ticks of the clock in one run
MaxTime == 1

UUIDs == {"uuid-" \o NumStr(i) : i \in 1..MaxBookings}

\* mutant: an identifier may repeat
randomUUIDRepeats == UUIDs

\* randomUUID(): one of the identifiers not generated before
randomUUID == UUIDs \ {returned[i].booking.o.id.s : i \in 1..Len(returned)}

\* new Date()
Date(ms) == [t |-> "date", ms |-> ms]

\* { ...bookingData, id, createdAt: new Date() }
NewBooking(bookingData, id, createdAt) ==
    Obj(With(With(bookingData.o, "id", Str(id)), "createdAt", createdAt))

\* this.travelBookings.set(id, booking)
MapSet(map, id, booking) == With(map, id, booking)

\* what the endpoint's schema lets through: the arguments createTravelBooking is typed for
TravelBookings ==
    {ZodParse(travelBookingSchema, b, <<>>).value :
       b \in {Obj(BaseBooking), Obj(With(BaseBooking, "uploaded_file", Null)),
              Obj(With(BaseBooking, "id", Str("42")))}}

createTravelBooking(bookingData) ==
    /\ \E id \in randomUUID :
         LET booking == NewBooking(bookingData, id, Date(now))
         IN  /\ travelBookings' = MapSet(travelBookings, id, booking)
             /\ returned' = Append(returned, [bookingData |-> bookingData, booking |-> booking])
    /\ UNCHANGED <<now, lookup>>

\* this.travelBookings.get(id)
MapGet(map, id) == IF id \in DOMAIN map THEN map[id] ELSE Undefined

getTravelBooking(id) ==
    /\ lookup' = [id |-> id, result |-> MapGet(travelBookings, id)]
    /\ UNCHANGED <<travelBookings, now, returned>>

\* time passes between calls
Tick ==
    /\ now < MaxTime
    /\ now' = now + 1
    /\ UNCHANGED <<travelBookings, returned, lookup>>

NextStore ==
    \/ \E bookingData \in TravelBookings : createTravelBooking(bookingData)
    \/ \E id \in UUIDs : getTravelBooking(id)
    \/ Tick

(***************************************************************************)
(* Strings whose characters matter are sequences of one-character strings. *)
(***************************************************************************)
Min(S) == CHOOSE x \in S : \A y \in S : x <= y

RECURSIVE Concat(_)
\* parts.join('')
Concat(ss) == IF ss = <<>> THEN <<>> ELSE Head(ss) \o Concat(Tail(ss))

LowerOf ==
    [c \in {"C", "D", "F", "O", "P", "X"} |->
        CASE c = "C" -> "c" [] c = "D" -> "d" [] c = "F" -> "f"
          [] c = "O" -> "o" [] c = "P" -> "p" [] c = "X" -> "x"]

\* s.toLowerCase()
toLowerCase(s) == [i \in 1..Len(s) |-> IF s[i] \in DOMAIN LowerOf THEN LowerOf[s[i]] ELSE s[i]]

\* s.split('.').pop(): what follows the last dot, all of s when it has no dot
SplitPop(s) ==
    LET dots == {i \in 1..Len(s) : s[i] = "."}
    IN  IF dots = {} THEN s
        ELSE SubSeq(s, (CHOOSE i \in dots : \A j \in dots : j <= i) + 1, Len(s))

\* s.trim() of the texts typed into an item input
trim(s) == IF s \in {"", " "} THEN "" ELSE s

(***************************************************************************)
(* The page that is open: the React form or the script-driven form         *)
(***************************************************************************)
ReactPage == "travel-booking.tsx"
VanillaPage == "travel-form.js"
Pages == {ReactPage, VanillaPage}

\* edits the user makes while a request of the form is in flight
MaxEditsInFlight == 0

\* a request of the open form has been started and has not ended
InFlight == mutations # <<>> \/ handlers # <<>>

\* the user changes something on the page
UserEdits ==
    /\ InFlight => editsInFlight < MaxEditsInFlight
    /\ editsInFlight' = IF InFlight THEN editsInFlight + 1 ELSE editsInFlight

\* how a request of the form ends: a 2xx answer with a JSON body, another
\* status, or no answer at all
RequestOutcomes == {"ok", "http error", "network error"}

(***************************************************************************)
(* The React form, travel-booking.tsx                                      *)
(***************************************************************************)
\* submit attempts between two resets of the form
MaxSubmits == 2

presetIncludes ==
    <<"Return International air fare + airport taxes + fuel surcharges + 20kg checked luggage",
      "Stay 05 Night as per itinerary based on twin / triple sharing",
      "Private touring in A/C coach with local Mandarin speaking guide as per itinerary",
      "Meals as per itinerary",
      "Tipping of tour guide & driver",
      "Travel Insurance (for age above 69 years old, require to top up RM108)",
      "01 tour leader service">>

presetExcludes ==
    <<"Hotel Portage in/out luggage",
      "Other expenses which are not indicated in itinerary">>

presetTerms ==
    <<"Tour fare is subject to change if group size less than {{enter number}} pax",
      "Quotation valid till {{pick/enter date}}. Rate subject to change after {{enter/pick date}}">>

StrArr(list) == Arr([i \in 1..Len(list) |-> Str(list[i])])

defaultValues ==
    [starting_date |-> Str(""), meals_provided |-> Bool(FALSE),
     flight_information |-> Str(""), number_of_delegates |-> Num(1),
     number_of_tour_leaders |-> Num(1), hotel_selection |-> Str(""),
     tour_fare |-> Null, single_supplement |-> Null,
     special_terms_enabled |-> Bool(FALSE), special_terms |-> StrArr(presetTerms),
     tour_fair_includes |-> StrArr(presetIncludes),
     tour_fair_excludes |-> StrArr(presetExcludes),
     uploaded_file |-> Null, markdown_content |-> Str(""),
     file_size_limit_enabled |-> Bool(TRUE), itinerary_language |-> Str("English")]

\* what the user types or picks
HotelTexts == {"", "Hilton"}
LanguageChoices == {"English", "other"}
CountTexts == {"", "0", "-3"}
NewItemTexts == {" ", "z"}
ListFields == {"tour_fair_includes", "tour_fair_excludes"}
\* the remove button pressed is that of the first item
RemoveIndexes == {0}
\* items are added to lists that hold fewer than this many
MaxItems == 1
AttachedFiles == {FileA}

\* parseInt(text) of the texts in CountTexts
parseInt(text) ==
    CASE text = "" -> NaN
      [] text = "0" -> Num(0)
      [] text = "-3" -> Num(0 - 3)

\* v is falsy
Falsy(v) ==
    \/ v.t \in {"undefined", "null"}
    \/ v.t = "string" /\ v.s = ""
    \/ v.t = "boolean" /\ ~v.b
    \/ v.t = "number" /\ (v = NaN \/ v = Num(0))

\* v || w
OrElse(v, w) == IF Falsy(v) THEN w ELSE v

\* mutant: a resolver that finds nothing wrong
resolverAcceptsAll(vals) == Parsed(<<>>, FALSE, Obj(vals))

\* zodResolver(travelBookingFormSchema) run on the form's values
resolver(vals) == ZodParse(travelBookingFormSchema, Obj(vals), <<>>)

\* formState.errors built from the issues: per field the first message
toErrors(issues) ==
    [f \in {JoinPath(issues[i].path) : i \in 1..Len(issues)} |->
        LET first == Min({i \in 1..Len(issues) : JoinPath(issues[i].path) = f})
        IN  issues[first].message]

\* field.onChange(v): the value is stored and, once a submit has been
\* attempted, the error of this field is brought up to date
setValue(name, v) ==
    LET changed == [values EXCEPT ![name] = v]
        fresh == toErrors(resolver(changed).issues)
    IN  /\ values' = changed
        /\ errors' = IF submitCount = 0 THEN errors
                     ELSE [f \in (DOMAIN errors \ {name}) \cup ({name} \cap DOMAIN fresh) |->
                              IF f = name THEN fresh[f] ELSE errors[f]]

ChangeHotel(text) ==
    /\ page = ReactPage
    /\ setValue("hotel_selection", Str(text))
    /\ UserEdits
    /\ UNCHANGED <<fileSizeLimit, submitCount, isPending, mutations>>

\* the Select of the itinerary language
SelectLanguage(value) ==
    /\ page = ReactPage
    /\ setValue("itinerary_language", IF value = "other" THEN Str("") ELSE Str(value))
    /\ UserEdits
    /\ UNCHANGED <<fileSizeLimit, submitCount, isPending, mutations>>

ChangeDelegates(text) ==
    /\ page = ReactPage
    /\ setValue("number_of_delegates", OrElse(parseInt(text), Num(1)))
    /\ UserEdits
    /\ UNCHANGED <<fileSizeLimit, submitCount, isPending, mutations>>

ChangeTourLeaders(text) ==
    /\ page = ReactPage
    /\ setValue("number_of_tour_leaders", OrElse(parseInt(text), Num(1)))
    /\ UserEdits
    /\ UNCHANGED <<fileSizeLimit, submitCount, isPending, mutations>>

\* FileUpload's onChange, with a file that was accepted or with null
ChangeFile(file) ==
    /\ page = ReactPage
    /\ setValue("uploaded_file", file)
    /\ UserEdits
    /\ UNCHANGED <<fileSizeLimit, submitCount, isPending, mutations>>

\* DynamicList.addItem with newItem typed into the input
addItem(field, newItem) ==
    /\ page = ReactPage
    /\ Len(values[field].a) < MaxItems
    /\ IF trim(newItem) # ""
       THEN setValue(field, Arr(Append(values[field].a, Str(trim(newItem)))))
       ELSE UNCHANGED <<values, errors>>
    /\ UserEdits
    /\ UNCHANGED <<fileSizeLimit, submitCount, isPending, mutations>>

\* DynamicList.removeItem(index), index counted from 0
removeItem(field, index) ==
    /\ page = ReactPage
    /\ index < Len(values[field].a)
    /\ LET old == values[field].a
       IN  setValue(field, Arr(SubSeq(old, 1, index) \o SubSeq(old, index + 2, Len(old))))
    /\ UserEdits
    /\ UNCHANGED <<fileSizeLimit, submitCount, isPending, mutations>>

\* the Switch of the size limit
setFileSizeLimit(checked) ==
    /\ page = ReactPage
    /\ fileSizeLimit' = checked
    /\ UserEdits
    /\ UNCHANGED <<values, errors, submitCount, isPending, mutations>>

\* what onSubmit hands to the mutation
submissionData(data) ==
    Obj([starting_date |-> OrElse(Get(data, "starting_date"), Null),
         meals_provided |-> Get(data, "meals_provided"),
         flight_information |-> OrElse(Get(data, "flight_information"), Str("")),
         number_of_delegates |-> Get(data, "number_of_delegates"),
         number_of_tour_leaders |-> Get(data, "number_of_tour_leaders"),
         hotel_selection |-> Get(data, "hotel_selection"),
         tour_fare |-> Get(data, "tour_fare"),
         single_supplement |-> Get(data, "single_supplement"),
         special_terms_enabled |-> Get(data, "special_terms_enabled"),
         special_terms |-> Get(data, "special_terms"),
         tour_fair_includes |-> Get(data, "tour_fair_includes"),
         tour_fair_excludes |-> Get(data, "tour_fair_excludes"),
         uploaded_file |-> Get(data, "uploaded_file"),
         markdown_content |-> OrElse(Get(data, "markdown_content"), Str("")),
         file_size_limit_enabled |-> Bool(fileSizeLimit),
         itinerary_language |-> Get(data, "itinerary_language")])

\* submitMutation.mutate(submissionData): the request leaves
onSubmit(data) ==
    /\ mutations' = Append(mutations, submissionData(data))
    /\ isPending' = TRUE

\* mutant: the submit button stays enabled
SubmitButtonNeverDisabled == FALSE

\* the disabled attribute of the submit button
SubmitButtonDisabled == isPending

\* form.handleSubmit(onSubmit) on a submit event: the resolver runs over the
\* current values and onSubmit is called only when it reports no issue
handleSubmit ==
    /\ page = ReactPage
    /\ ~SubmitButtonDisabled
    /\ submitCount < MaxSubmits
    /\ submitCount' = submitCount + 1
    /\ LET result == resolver(values)
       IN  IF result.issues # <<>>
           THEN /\ errors' = toErrors(result.issues)
                /\ UNCHANGED <<isPending, mutations>>
           ELSE /\ errors' = <<>>
                /\ onSubmit(result.value.o)
    /\ editsInFlight' = 0
    /\ UNCHANGED <<values, fileSizeLimit>>

\* the mutations but the i-th
Settled(i) == SubSeq(mutations, 1, i - 1) \o SubSeq(mutations, i + 1, Len(mutations))

\* the request of mutation i ends; isPending follows the mutation started last
MutationSettles(i, outcome) ==
    /\ page = ReactPage
    /\ i \in 1..Len(mutations)
    /\ mutations' = Settled(i)
    /\ isPending' = IF i = Len(mutations) THEN FALSE ELSE isPending
    /\ IF outcome = "ok"
       THEN \* onSuccess: form.reset(defaultValues), setFileSizeLimit(true)
            /\ values' = defaultValues
            /\ errors' = <<>>
            /\ submitCount' = 0
            /\ fileSizeLimit' = TRUE
       ELSE \* onError: a toast and nothing else
            UNCHANGED <<values, errors, submitCount, fileSizeLimit>>
    /\ editsInFlight' = 0

NextReact ==
    \/ \E text \in HotelTexts : ChangeHotel(text)
    \/ \E value \in LanguageChoices : SelectLanguage(value)
    \/ \E text \in CountTexts : ChangeDelegates(text)
    \/ \E text \in CountTexts : ChangeTourLeaders(text)
    \/ \E file \in AttachedFiles \cup {Null} : ChangeFile(file)
    \/ \E field \in ListFields, newItem \in NewItemTexts : addItem(field, newItem)
    \/ \E field \in ListFields, index \in RemoveIndexes : removeItem(field, index)
    \/ \E checked \in BOOLEAN : setFileSizeLimit(checked)
    \/ handleSubmit
    \/ \E i \in 1..Len(mutations), outcome \in RequestOutcomes : MutationSettles(i, outcome)

InitReact ==
    /\ values = defaultValues
    /\ fileSizeLimit = TRUE
    /\ errors = <<>>
    /\ submitCount = 0
    /\ isPending = FALSE
    /\ mutations = <<>>

(***************************************************************************)
(* The script-driven form, travel-form.js.  Its markup is not part of the  *)
(* sources: the required fields are the inputs of the custom items, each   *)
(* list and the upload sit in a form group of their own, and the size      *)
(* limit is checked when the page loads.                                   *)
(***************************************************************************)
\* custom items on the page at one time
MaxCustomItems == 1

ListIds == {"includesList", "excludesList"}
ItemTexts == {"", "x"}

PlanPdf ==
    [name |-> <<"a", ".", "p", "d", "f">>, size |-> 1024, type |-> "application/pdf",
     dataURL |-> <<"data:application/pdf;base64", "QQ==">>]
NotesTxt ==
    [name |-> <<"a", ".", "t", "x", "t">>, size |-> 1024, type |-> "text/plain",
     dataURL |-> <<"data:text/plain;base64", "Qg==">>]
BigDocx ==
    [name |-> <<"b", ".", "D", "O", "C", "X">>, size |-> 10485761, type |-> "",
     dataURL |-> <<"data:application/octet-stream;base64", "Qw==">>]
SelectableFiles == {PlanPdf, NotesTxt, BigDocx}

allowedTypes ==
    {<<".", "p", "d", "f">>, <<".", "d", "o", "c">>, <<".", "d", "o", "c", "x">>}

fileExtension(file) == <<".">> \o toLowerCase(SplitPop(file.name))

\* 10 * 1024 * 1024
TenMB == 10485760

InvalidTypeMessage == "Invalid file type. Please upload PDF, DOC, or DOCX files only."
SizeMessage == "File size exceeds 10MB limit."
FixMessage == "Please fix the validation errors before submitting."
SuccessMessage == "Travel booking form submitted successfully!"
FailedMessage == "Failed to submit form. Please try again."

\* handleFileUpload({ target: documentUpload }) with fs in documentUpload.files
handleFileUpload(fs, limitEnabled) ==
    IF fs = <<>> THEN UNCHANGED <<files, fileInfoHidden, statusMessages, errorGroups>>
    ELSE IF fileExtension(fs[1]) \notin allowedTypes
    THEN /\ statusMessages' = InvalidTypeMessage
         /\ files' = <<>>
         /\ fileInfoHidden' = TRUE
         /\ UNCHANGED errorGroups
    ELSE IF limitEnabled /\ fs[1].size > TenMB
    THEN /\ statusMessages' = SizeMessage
         /\ files' = <<>>
         /\ fileInfoHidden' = TRUE
         /\ UNCHANGED errorGroups
    ELSE /\ files' = fs
         /\ fileInfoHidden' = FALSE
         /\ errorGroups' = errorGroups \ {"documentUpload"}
         /\ UNCHANGED statusMessages

\* the change event of the file input, and a drop
SelectFile(file) ==
    /\ page = VanillaPage
    /\ handleFileUpload(<<file>>, fileSizeLimitChecked)
    /\ UserEdits
    /\ UNCHANGED <<customItems, fileSizeLimitChecked, submitDisabled, handlers>>

clearFile ==
    /\ page = VanillaPage
    /\ files' = <<>>
    /\ fileInfoHidden' = TRUE
    /\ UserEdits
    /\ UNCHANGED <<customItems, fileSizeLimitChecked, errorGroups, statusMessages,
                   submitDisabled, handlers>>

\* the change event of the size-limit checkbox
handleFileSizeLimitToggle ==
    /\ page = VanillaPage
    /\ fileSizeLimitChecked' = ~fileSizeLimitChecked
    /\ handleFileUpload(files, fileSizeLimitChecked')
    /\ UserEdits
    /\ UNCHANGED <<customItems, submitDisabled, handlers>>

CustomItemCount == Len(customItems["includesList"]) + Len(customItems["excludesList"])

addListItem(listId) ==
    /\ page = VanillaPage
    /\ CustomItemCount < MaxCustomItems
    /\ customItems' = [customItems EXCEPT ![listId] = Append(@, "")]
    /\ UserEdits
    /\ UNCHANGED <<files, fileInfoHidden, fileSizeLimitChecked, errorGroups, statusMessages,
                   submitDisabled, handlers>>

\* window.removeListItem, once its timer has run
removeListItem(listId, i) ==
    /\ page = VanillaPage
    /\ i \in 1..Len(customItems[listId])
    /\ customItems' = [customItems EXCEPT ![listId] = SubSeq(@, 1, i - 1) \o SubSeq(@, i + 1, Len(@))]
    /\ UserEdits
    /\ UNCHANGED <<files, fileInfoHidden, fileSizeLimitChecked, errorGroups, statusMessages,
                   submitDisabled, handlers>>

\* typing into a custom item: the input event reaches handleRealTimeValidation
handleRealTimeValidation(listId, i, text) ==
    /\ page = VanillaPage
    /\ i \in 1..Len(customItems[listId])
    /\ customItems' = [customItems EXCEPT ![listId][i] = text]
    /\ errorGroups' = IF trim(text) = "" THEN errorGroups ELSE errorGroups \ {listId}
    /\ UserEdits
    /\ UNCHANGED <<files, fileInfoHidden, fileSizeLimitChecked, statusMessages,
                   submitDisabled, handlers>>

\* the form groups validateForm marks
validateForm ==
    {listId \in ListIds : \E i \in 1..Len(customItems[listId]) : trim(customItems[listId][i]) = ""}
    \cup (IF files = <<>> THEN {"documentUpload"} ELSE {})

\* the texts of a list's items: the presets, then the custom items that are not empty
ListItems(presets, listId) ==
    presets \o SelectSeq(customItems[listId], LAMBDA text : text # "")

\* collectFormData up to its await: the data, the file still to be read
collectFormData ==
    [starting_date |-> Null, meals_provided |-> Bool(FALSE), flight_information |-> Str(""),
     tour_fair_includes |-> StrArr(ListItems(presetIncludes, "includesList")),
     tour_fair_excludes |-> StrArr(ListItems(presetExcludes, "excludesList")),
     uploaded_file |-> Null,
     file_size_limit_enabled |-> Bool(fileSizeLimitChecked)]

\* the submit event: handleFormSubmit up to its first await
handleFormSubmit ==
    /\ page = VanillaPage
    /\ ~submitDisabled
    /\ IF validateForm # {}
       THEN /\ errorGroups' = validateForm
            /\ statusMessages' = FixMessage
            /\ UNCHANGED <<submitDisabled, handlers>>
       ELSE /\ errorGroups' = {}
            /\ submitDisabled' = TRUE
            /\ handlers' = Append(handlers, [pc |-> "fileToBase64", file |-> files[1],
                                             data |-> collectFormData])
            /\ UNCHANGED statusMessages
    /\ editsInFlight' = 0
    /\ UNCHANGED <<customItems, files, fileInfoHidden, fileSizeLimitChecked>>

\* the handlers but the h-th
Finished(h) == SubSeq(handlers, 1, h - 1) \o SubSeq(handlers, h + 1, Len(handlers))

\* the file of handler h has been read: fetch is called
FileIsRead(h) ==
    /\ page = VanillaPage
    /\ h \in 1..Len(handlers)
    /\ handlers[h].pc = "fileToBase64"
    /\ LET file == handlers[h].file
           uploaded == Obj([filename |-> Str(file.name), size |-> Num(file.size),
                            type |-> Str(file.type), data |-> Str(file.dataURL[2])])
       IN  handlers' = [handlers EXCEPT ![h].pc = "fetch",
                                        ![h].data = [@ EXCEPT !.uploaded_file = uploaded]]
    /\ UNCHANGED <<customItems, files, fileInfoHidden, fileSizeLimitChecked, errorGroups,
                   statusMessages, submitDisabled, editsInFlight>>

\* reading the file of handler h fails: catch, then finally
FileReadFails(h) ==
    /\ page = VanillaPage
    /\ h \in 1..Len(handlers)
    /\ handlers[h].pc = "fileToBase64"
    /\ statusMessages' = FailedMessage
    /\ submitDisabled' = FALSE
    /\ handlers' = Finished(h)
    /\ editsInFlight' = 0
    /\ UNCHANGED <<customItems, files, fileInfoHidden, fileSizeLimitChecked, errorGroups>>

\* the request of handler h ends: the rest of the try block or catch, then finally
submitToBackendSettles(h, outcome) ==
    /\ page = VanillaPage
    /\ h \in 1..Len(handlers)
    /\ handlers[h].pc = "fetch"
    /\ IF outcome = "ok"
       THEN /\ statusMessages' = SuccessMessage
            \* form.reset(), clearFile(), clearCustomItems()
            /\ files' = <<>>
            /\ fileInfoHidden' = TRUE
            /\ fileSizeLimitChecked' = TRUE
            /\ customItems' = [listId \in ListIds |-> <<>>]
       ELSE /\ statusMessages' = FailedMessage
            /\ UNCHANGED <<files, fileInfoHidden, fileSizeLimitChecked, customItems>>
    /\ submitDisabled' = FALSE
    /\ handlers' = Finished(h)
    /\ editsInFlight' = 0
    /\ UNCHANGED <<errorGroups>>

NextVanilla ==
    \/ \E file \in SelectableFiles : SelectFile(file)
    \/ clearFile
    \/ handleFileSizeLimitToggle
    \/ \E listId \in ListIds : addListItem(listId)
    \/ \E listId \in ListIds, i \in 1..MaxCustomItems : removeListItem(listId, i)
    \/ \E listId \in ListIds, i \in 1..MaxCustomItems, text \in ItemTexts :
          handleRealTimeValidation(listId, i, text)
    \/ handleFormSubmit
    \/ \E h \in 1..Len(handlers) : FileIsRead(h)
    \/ \E h \in 1..Len(handlers) : FileReadFails(h)
    \/ \E h \in 1..Len(handlers), outcome \in RequestOutcomes : submitToBackendSettles(h, outcome)

InitVanilla ==
    /\ customItems = [listId \in ListIds |-> <<>>]
    /\ files = <<>>
    /\ fileInfoHidden = TRUE
    /\ fileSizeLimitChecked = TRUE
    /\ errorGroups = {}
    /\ statusMessages = ""
    /\ submitDisabled = FALSE
    /\ handlers = <<>>

(***************************************************************************)
(* EditableTemplateList: the items of the special terms and their parts    *)
(***************************************************************************)
\* length of the item's text
MaxLen == 10

Alphabet == {"{", "}", "a"}
Texts == UNION {[1..n -> Alphabet] : n \in 0..MaxLen}
\* what is typed into a placeholder's input
EditValues == {<<>>, <<"a">>, <<"}">>}

\* items of a list of terms
MaxTerms == 2

TermTexts ==
    { <<"x", "{", "{", "a", "b", "}", "}", "y">>,
      <<"{", "{", "a", "}", "}", "{", "{", "b", "}", "}">>,
      <<"x", "y">> }
TermLists == UNION {[1..n -> TermTexts] : n \in 1..MaxTerms}

TextPart(content) == [type |-> "text", content |-> content]
PlaceholderPart(content) == [type |-> "placeholder", content |-> content]

\* mutant: the pattern with [^}]* for [^}]+
MatchEndAllowsEmpty(s, i) ==
    IF i + 1 <= Len(s) /\ s[i] = "{" /\ s[i + 1] = "{"
    THEN LET closing == {k \in (i + 2)..Len(s) : s[k] = "}"}
         IN  IF closing = {} THEN 0
             ELSE LET k == Min(closing)
                  IN  IF k + 1 <= Len(s) /\ s[k + 1] = "}" THEN k + 1 ELSE 0
    ELSE 0

\* /\{\{([^}]+)\}\}/ tried at position i of s: the position of the last
\* character of the match, 0 when there is no match at i.  Positions count
\* from 1; [^}]+ runs up to the first } and must not be empty.
MatchEnd(s, i) ==
    IF i + 1 <= Len(s) /\ s[i] = "{" /\ s[i + 1] = "{"
    THEN LET closing == {k \in (i + 2)..Len(s) : s[k] = "}"}
         IN  IF closing = {} THEN 0
             ELSE LET k == Min(closing)
                  IN  IF k > i + 2 /\ k + 1 <= Len(s) /\ s[k + 1] = "}" THEN k + 1 ELSE 0
    ELSE 0

\* regex.exec(text) with regex.lastIndex = from - 1: the first position at or
\* after from where the pattern matches, 0 when it matches nowhere (null)
regexExec(s, from) ==
    LET starts == {i \in from..Len(s) : MatchEnd(s, i) > 0}
    IN  IF starts = {} THEN 0 ELSE Min(starts)

RECURSIVE Segment(_, _)
\* the while loop of renderEditableTemplate and the push that follows it,
\* with lastIndex = from - 1
Segment(s, from) ==
    LET index == regexExec(s, from)
    IN  IF index = 0
        THEN IF from <= Len(s) THEN <<TextPart(SubSeq(s, from, Len(s)))>> ELSE <<>>
        ELSE LET end == MatchEnd(s, index)
                 before == IF index > from
                           THEN <<TextPart(SubSeq(s, from, index - 1))>> ELSE <<>>
             IN  before \o <<PlaceholderPart(SubSeq(s, index + 2, end - 2))>>
                        \o Segment(s, end + 1)

\* newParts.map(p => p.type === 'placeholder' ? `{{${p.content}}}` : p.content).join('')
Reconstruct(ps) ==
    Concat([i \in 1..Len(ps) |->
              IF ps[i].type = "placeholder"
              THEN <<"{", "{">> \o ps[i].content \o <<"}", "}">>
              ELSE ps[i].content])

RECURSIVE LastIndexAfter(_, _)
\* regex.lastIndex + 1 after the last successful exec on s, scanning from from
LastIndexAfter(s, from) ==
    LET index == regexExec(s, from)
    IN  IF index = 0 THEN from ELSE LastIndexAfter(s, MatchEnd(s, index) + 1)

\* mutant: one pattern object for all items, whose scan position stays where
\* the item before left it
RenderAllCarry(list) ==
    [i \in 1..Len(list) |->
        Segment(list[i], IF i = 1 THEN 1 ELSE LastIndexAfter(list[i - 1], 1))]

\* the parts of every item of a list, as safeItems.map renders them
RenderAll(list) == [i \in 1..Len(list) |-> Segment(list[i], 1)]

\* the list is rendered: renderEditableTemplate(item, index) for every item
renderEditableTemplate ==
    /\ parts' = RenderAll(items)
    /\ rendered' = TRUE
    /\ UNCHANGED items

\* mutant: the new value is written to the first item
handleEditFirst(index, newValue) ==
    LET newItems == [items EXCEPT ![1] = newValue]
    IN  /\ items' = newItems
        /\ parts' = RenderAll(newItems)
        /\ UNCHANGED rendered

\* handleEdit(index, newValue) with index counted from 0, and the render
\* that follows onChange(newItems)
handleEdit(index, newValue) ==
    LET newItems == [items EXCEPT ![index + 1] = newValue]
    IN  /\ items' = newItems
        /\ parts' = RenderAll(newItems)
        /\ UNCHANGED rendered

\* the onChange of the input of placeholder partIndex (counted from 1) of
\* item index (counted from 0)
PlaceholderChange(index, partIndex, value) ==
    /\ rendered
    /\ index + 1 \in 1..Len(items)
    /\ partIndex \in 1..Len(parts[index + 1])
    /\ parts[index + 1][partIndex].type = "placeholder"
    /\ LET newParts == [parts[index + 1] EXCEPT ![partIndex].content = value]
           newText == Reconstruct(newParts)
       IN  /\ Len(newText) <= MaxLen
           /\ handleEdit(index, newText)

\* parts.length === 0 || parts.every(p => p.type === 'text'): the item is
\* shown as one Input
IsPlain(ps) == \A n \in 1..Len(ps) : ps[n].type = "text"

\* the onChange of that Input, of item index (counted from 0)
PlainChange(index, value) ==
    /\ rendered
    /\ index + 1 \in 1..Len(items)
    /\ IsPlain(parts[index + 1])
    /\ handleEdit(index, value)

NextTemplate ==
    \/ renderEditableTemplate
    \/ \E index \in 0..(MaxTerms - 1), partIndex \in 1..MaxLen, value \in EditValues :
          PlaceholderChange(index, partIndex, value)

\* a list of one item, of any text
InitTemplate ==
    /\ items \in {<<t>> : t \in Texts}
    /\ parts = <<>>
    /\ rendered = FALSE

\* a list of a few items with and without placeholders
InitTerms ==
    /\ items \in TermLists
    /\ parts = <<>>
    /\ rendered = FALSE

\* texts without a placeholder, and one with
PlainTexts ==
    { <<"{", "{", "a">>,
      <<"{", "{", "}", "}">>,
      <<"{", "{", "a", "}", "a", "}", "}">>,
      <<"{", "{", "a", "}", "}">>,
      <<"a", "{", "{", "a", "}", "}", "{", "{">> }
PlainLists == UNION {[1..n -> PlainTexts] : n \in 1..MaxTerms}

NextPlain ==
    \/ NextTemplate
    \/ \E index \in 0..(MaxTerms - 1), value \in EditValues : PlainChange(index, value)

InitPlain ==
    /\ items \in PlainLists
    /\ parts = <<>>
    /\ rendered = FALSE

(***************************************************************************)
(* The letters in front of the items of a list                             *)
(***************************************************************************)
\* clicks on a list's add button between two successful submissions
MaxAdds == 3
\* custom rows in a list at one time
MaxRows == 2

\* String.fromCharCode, as the code unit it yields
fromCharCode(n) == n % 65536

\* DynamicList computes the letter of a row from its index at every render
getLetter(index) == fromCharCode(97 + index)

\* the counters' start: the rows the markup presets
presetCounts == [listId \in ListIds |-> IF listId = "includesList" THEN 7 ELSE 2]

\* the click handler of a list's add button: addListItem and the counter it returns
AddItemClick(listId) ==
    /\ page = VanillaPage
    /\ counters[listId] < presetCounts[listId] + MaxAdds
    /\ Len(rows[listId]) < MaxRows
    /\ rows' = [rows EXCEPT ![listId] = Append(@, fromCharCode(97 + counters[listId]))]
    /\ counters' = [counters EXCEPT ![listId] = @ + 1]

\* window.removeListItem, once its timer has run: the row goes, the others keep their letters
RemoveItemClick(listId, r) ==
    /\ page = VanillaPage
    /\ r \in 1..Len(rows[listId])
    /\ rows' = [rows EXCEPT ![listId] = SubSeq(@, 1, r - 1) \o SubSeq(@, r + 1, Len(@))]
    /\ UNCHANGED counters

\* the end of a successful submission: the counters restart and clearCustomItems runs
CountersReset ==
    /\ page = VanillaPage
    /\ counters # presetCounts
    /\ counters' = presetCounts
    /\ rows' = [listId \in ListIds |-> <<>>]

NextLabels ==
    \/ \E listId \in ListIds : AddItemClick(listId)
    \/ \E listId \in ListIds, r \in 1..MaxRows : RemoveItemClick(listId, r)
    \/ CountersReset

InitLabels ==
    /\ counters = presetCounts
    /\ rows = [listId \in ListIds |-> <<>>]

(***************************************************************************)
(* FileUpload, as the extended page renders it                             *)
(***************************************************************************)
\* dragenter events between two drops
MaxDrags == 3

LimitDocx ==
    [name |-> <<"c", ".", "d", "o", "c", "x">>, size |-> 10485760, type |-> "",
     dataURL |-> <<"data:application/octet-stream;base64", "RA==">>]
BigTxt ==
    [name |-> <<"d", ".", "T", "X", "T">>, size |-> 10485761, type |-> "text/plain",
     dataURL |-> <<"data:text/plain;base64", "RQ==">>]
\* a file whose name has no dot
BarePdf ==
    [name |-> <<"p", "d", "f">>, size |-> 1024, type |-> "",
     dataURL |-> <<"data:application/octet-stream;base64", "Rg==">>]
\* the files the user picks or drops
Candidates == {PlanPdf, NotesTxt, BigDocx, LimitDocx, BigTxt, BarePdf}

\* accept.split(',').map(type => type.trim()) of the accept the page passes
acceptedTypes ==
    {<<".", "p", "d", "f">>, <<".", "d", "o", "c">>, <<".", "d", "o", "c", "x">>,
     <<".", "x", "l", "s", "x">>, <<".", "m", "d">>}

\* the maxSize prop the page passes
maxSizeProp == IF fileSizeLimit THEN Num(TenMB) ELSE Undefined

\* mutant: a parameter without a default, so that undefined means no limit
maxSizeAsPassed == maxSizeProp

\* the maxSize the component sees: the parameter's default stands in for undefined
maxSize == IF maxSizeProp = Undefined THEN Num(TenMB) ELSE maxSizeProp

\* `File size exceeds ${formatFileSize(maxSize)} limit.` for the only maxSize there is
SizeLimitMessage == "File size exceeds 10 MB limit."
ProcessMessage == "Failed to process file"

\* validateFile without its check of the type
validateFileSizeOnly(file) ==
    IF ~Falsy(maxSize) /\ file.size > maxSize.n THEN Str(SizeLimitMessage) ELSE Null

validateFile(file) ==
    IF fileExtension(file) \notin acceptedTypes THEN Str(InvalidTypeMessage)
    ELSE IF ~Falsy(maxSize) /\ file.size > maxSize.n THEN Str(SizeLimitMessage)
    ELSE Null

\* handleFile up to its return or its await
handleFile(file) ==
    LET validationError == validateFile(file)
    IN  IF validationError # Null
        THEN /\ error' = validationError
             /\ isProcessing' = FALSE
             /\ UNCHANGED reading
        ELSE /\ error' = Null
             /\ isProcessing' = TRUE
             /\ reading' = <<file>>

\* the drop zone is rendered while there is no value, and takes no pointer
\* events while a file is processed
DropZoneActive ==
    /\ page = ReactPage
    /\ Falsy(values.uploaded_file)
    /\ ~isProcessing

\* the change event of the input: the dialog returned a selection that differs
handleFileSelect(file) ==
    /\ DropZoneActive
    /\ fileInput # <<file>>
    /\ fileInput' = <<file>>
    /\ handleFile(file)
    /\ UNCHANGED <<browserVars, reactVars>>

\* event.dataTransfer.files[0] of a drop that carries no file
NoFile == Undefined

handleDrop(file) ==
    /\ DropZoneActive
    /\ dragOver' = FALSE
    /\ dragActive' = FALSE
    /\ dragCounter' = 0
    /\ enters' = 0
    /\ leaves' = 0
    /\ IF file # NoFile THEN handleFile(file) ELSE UNCHANGED <<error, isProcessing, reading>>
    /\ UNCHANGED <<fileInput, browserVars, reactVars>>

\* event.dataTransfer.items is there and not empty
handleDragEnter(hasItems) ==
    /\ DropZoneActive
    /\ enters < MaxDrags
    /\ enters' = enters + 1
    /\ dragCounter' = dragCounter + 1
    /\ dragActive' = IF hasItems THEN TRUE ELSE dragActive
    /\ UNCHANGED <<dragOver, leaves, uploadVars, browserVars, reactVars>>

\* dragover is fired while the pointer is over the zone or a child of it
handleDragOver ==
    /\ DropZoneActive
    /\ leaves < enters
    /\ dragOver' = TRUE
    /\ UNCHANGED <<dragCounter, dragActive, enters, leaves, uploadVars, browserVars, reactVars>>

\* mutant: every dragleave clears the states
handleDragLeaveClears ==
    /\ DropZoneActive
    /\ leaves < enters
    /\ leaves' = leaves + 1
    /\ dragCounter' = dragCounter - 1
    /\ dragActive' = FALSE
    /\ dragOver' = FALSE
    /\ UNCHANGED <<enters, uploadVars, browserVars, reactVars>>

\* the browser fires dragleave for an element it fired dragenter for, and
\* none after the drop
handleDragLeave ==
    /\ DropZoneActive
    /\ leaves < enters
    /\ leaves' = leaves + 1
    /\ dragCounter' = dragCounter - 1
    /\ IF dragCounter - 1 = 0
       THEN dragActive' = FALSE /\ dragOver' = FALSE
       ELSE UNCHANGED <<dragActive, dragOver>>
    /\ UNCHANGED <<enters, uploadVars, browserVars, reactVars>>

\* fileToBase64 resolves: onChange with the file, then finally
fileToBase64Resolves ==
    /\ page = ReactPage
    /\ reading # <<>>
    /\ LET file == reading[1]
       IN  setValue("uploaded_file",
                    Obj([filename |-> Str(file.name), size |-> Num(file.size),
                         type |-> Str(file.type), data |-> Str(file.dataURL[2])]))
    /\ isProcessing' = FALSE
    /\ reading' = <<>>
    /\ UNCHANGED <<error, fileInput, browserVars, fileSizeLimit, submitCount, isPending, mutations>>

\* fileToBase64 rejects: catch, then finally
fileToBase64Rejects ==
    /\ page = ReactPage
    /\ reading # <<>>
    /\ error' = Str(ProcessMessage)
    /\ isProcessing' = FALSE
    /\ reading' = <<>>
    /\ UNCHANGED <<fileInput, browserVars, reactVars>>

\* removeFile as a form reset would do it: every field back to its default
removeFileResetsForm ==
    /\ page = ReactPage
    /\ ~Falsy(values.uploaded_file)
    /\ values' = defaultValues
    /\ error' = Null
    /\ fileInput' = <<>>
    /\ UNCHANGED <<isProcessing, reading, browserVars, fileSizeLimit, errors, submitCount,
                   isPending, mutations>>

\* the remove button, rendered while there is a value; the effect on value
\* then finds it null and clears the input and the error once more
removeFile ==
    /\ page = ReactPage
    /\ ~Falsy(values.uploaded_file)
    /\ setValue("uploaded_file", Null)
    /\ error' = Null
    /\ fileInput' = <<>>
    /\ UNCHANGED <<isProcessing, reading, browserVars, fileSizeLimit, submitCount, isPending,
                   mutations>>

NextUpload ==
    \/ \E file \in Candidates : handleFileSelect(file) /\ UNCHANGED dragVars
    \/ \E file \in Candidates : handleDrop(file)
    \/ fileToBase64Resolves /\ UNCHANGED dragVars
    \/ fileToBase64Rejects /\ UNCHANGED dragVars
    \/ removeFile /\ UNCHANGED dragVars
    \/ \E checked \in BOOLEAN : setFileSizeLimit(checked) /\ UNCHANGED <<page, uploadVars, dragVars>>
    \/ \E text \in HotelTexts : ChangeHotel(text) /\ UNCHANGED <<page, uploadVars, dragVars>>

\* the upload with the drag events of its drop zone
NextDrag ==
    \/ NextUpload
    \/ handleDrop(NoFile)
    \/ \E hasItems \in BOOLEAN : handleDragEnter(hasItems)
    \/ handleDragOver
    \/ handleDragLeave

InitUpload ==
    /\ error = Null
    /\ isProcessing = FALSE
    /\ fileInput = <<>>
    /\ reading = <<>>
    /\ dragCounter = 0
    /\ dragActive = FALSE
    /\ dragOver = FALSE
    /\ enters = 0
    /\ leaves = 0

(***************************************************************************)
(* The list components on their own: DynamicList in its two versions and   *)
(* the adding and removing of EditableTemplateList                         *)
(***************************************************************************)
\* items a list holds at most
MaxListLen == 3

NoComponent == "none"
\* dynamic-list.tsx, the version of DynamicList that keeps the presets, and
\* EditableTemplateList
DynamicList == "DynamicList"
DynamicListKeepingPresets == "DynamicList keeping presets"
EditableTemplateList == "EditableTemplateList"

\* the presetItems prop, and the items prop the form starts with
presetItems == << <<"p">>, <<"q">> >>

\* what is typed into the input of a new item and into the input of an item
NewItemInputs == {<<>>, <<" ">>, <<" ", "b", " ", "b", " ">>, <<"c">>}
ItemInputs == {<<>>, <<"a">>}

RECURSIVE trimStart(_)
trimStart(s) == IF s # <<>> /\ Head(s) = " " THEN trimStart(Tail(s)) ELSE s

RECURSIVE trimEnd(_)
trimEnd(s) == IF s # <<>> /\ s[Len(s)] = " " THEN trimEnd(SubSeq(s, 1, Len(s) - 1)) ELSE s

\* s.trim() of a string given by its characters
stringTrim(s) == trimEnd(trimStart(s))

\* items.filter((_, i) => i !== index), index counted from 0
filterOut(list, index) ==
    SubSeq(list, 1, index) \o SubSeq(list, index + 2, Len(list))

\* mutant: every item is shown as an Input
mapAllInputs(list) == [i \in 1..Len(list) |-> TRUE]

\* items.map: an item is shown as an Input unless index < presetItems.length
mapItems(list) == [i \in 1..Len(list) |-> ~(i - 1 < Len(presetItems))]

\* onChange(newItems) of DynamicList and the render that follows
listOnChange(newItems) ==
    /\ listItems' = newItems
    /\ editable' = mapItems(newItems)

setNewItem(text) ==
    /\ component # NoComponent
    /\ component = EditableTemplateList => rendered
    /\ newItemText # text
    /\ newItemText' = text
    /\ UNCHANGED <<component, listItems, editable, templateVars>>

\* addItem of DynamicList, the same in both versions
DynamicListAddItem ==
    /\ component \in {DynamicList, DynamicListKeepingPresets}
    /\ Len(listItems) < MaxListLen
    /\ IF stringTrim(newItemText) # <<>>
       THEN /\ listOnChange(Append(listItems, stringTrim(newItemText)))
            /\ newItemText' = <<>>
       ELSE UNCHANGED <<listItems, editable, newItemText>>
    /\ UNCHANGED <<component, templateVars>>

\* removeItem of dynamic-list.tsx, index counted from 0
DynamicListRemoveItem(index) ==
    /\ component = DynamicList
    /\ index < Len(listItems)
    /\ listOnChange(filterOut(listItems, index))
    /\ UNCHANGED <<component, newItemText, templateVars>>

\* mutant: the version that keeps the presets removes like the other
KeepingPresetsRemovesAny(index) ==
    /\ component = DynamicListKeepingPresets
    /\ index < Len(listItems)
    /\ listOnChange(filterOut(listItems, index))
    /\ UNCHANGED <<component, newItemText, templateVars>>

\* removeItem of the version that keeps the presets
KeepingPresetsRemoveItem(index) ==
    /\ component = DynamicListKeepingPresets
    /\ index < Len(listItems)
    /\ IF index >= Len(presetItems)
       THEN listOnChange(filterOut(listItems, index))
       ELSE UNCHANGED <<listItems, editable>>
    /\ UNCHANGED <<component, newItemText, templateVars>>

\* the onChange of the Input of item index, in both versions
DynamicListInputChange(index, value) ==
    /\ component \in {DynamicList, DynamicListKeepingPresets}
    /\ index < Len(listItems)
    /\ editable[index + 1]
    /\ listOnChange([listItems EXCEPT ![index + 1] = value])
    /\ UNCHANGED <<component, newItemText, templateVars>>

\* handleAdd of EditableTemplateList and the render that follows
handleAdd ==
    /\ component = EditableTemplateList
    /\ rendered
    /\ Len(items) < MaxListLen
    /\ IF stringTrim(newItemText) # <<>>
       THEN LET newItems == Append(items, stringTrim(newItemText))
            IN  /\ items' = newItems
                /\ parts' = RenderAll(newItems)
                /\ newItemText' = <<>>
       ELSE UNCHANGED <<items, parts, newItemText>>
    /\ UNCHANGED <<rendered, component, listItems, editable>>

\* mutant: the item before the one asked for is removed as well
handleRemoveTwo(index) ==
    /\ component = EditableTemplateList
    /\ rendered
    /\ index < Len(items)
    /\ LET newItems == filterOut(filterOut(items, index), index - 1)
       IN  /\ items' = newItems
           /\ parts' = RenderAll(newItems)
    /\ UNCHANGED <<rendered, listVars>>

\* handleRemove of EditableTemplateList and the render that follows
handleRemove(index) ==
    /\ component = EditableTemplateList
    /\ rendered
    /\ index < Len(items)
    /\ LET newItems == filterOut(items, index)
       IN  /\ items' = newItems
           /\ parts' = RenderAll(newItems)
    /\ UNCHANGED <<rendered, listVars>>

NextLists ==
    \/ \E text \in NewItemInputs : setNewItem(text)
    \/ DynamicListAddItem
    \/ \E index \in 0..(MaxListLen - 1) : DynamicListRemoveItem(index)
    \/ \E index \in 0..(MaxListLen - 1) : KeepingPresetsRemoveItem(index)
    \/ \E index \in 0..(MaxListLen - 1), value \in ItemInputs : DynamicListInputChange(index, value)
    \/ handleAdd
    \/ \E index \in 0..(MaxListLen - 1) : handleRemove(index)
    \/ component = EditableTemplateList /\ renderEditableTemplate /\ UNCHANGED listVars
    \/ /\ component = EditableTemplateList
       /\ \E index \in 0..(MaxListLen - 1), value \in ItemInputs : PlainChange(index, value)
       /\ UNCHANGED listVars
    \/ /\ component = EditableTemplateList
       /\ \E index \in 0..(MaxListLen - 1), partIndex \in 1..MaxLen, value \in ItemInputs :
             PlaceholderChange(index, partIndex, value)
       /\ UNCHANGED listVars

\* no list component is mounted on its own
InitLists ==
    /\ component = NoComponent
    /\ listItems = <<>>
    /\ newItemText = <<>>
    /\ editable = <<>>

\* one of the three, as the form mounts it
InitMounted ==
    /\ component \in {DynamicList, DynamicListKeepingPresets, EditableTemplateList}
    /\ newItemText = <<>>
    /\ IF component = EditableTemplateList
       THEN /\ listItems = <<>>
            /\ editable = <<>>
            /\ items = << <<"x", "{", "{", "a", "b", "}", "}", "y">>, <<"x", "y">> >>
            /\ parts = <<>>
            /\ rendered = FALSE
       ELSE /\ listItems = presetItems
            /\ editable = mapItems(presetItems)
            /\ InitTemplate
            /\ items = << <<>> >>

(***************************************************************************)
(* The autosaving page: the draft in localStorage                          *)
(***************************************************************************)
\* the page before it is opened, and the autosaving page
BlankPage == "about:blank"
DraftPage == "travel-booking.tsx (autosave)"

\* visits of the page: the clock stops short of this many times the longest pause
MaxVisits == 2

STORAGE_VERSION == "v1"
sevenDays == 7 * 24 * 60 * 60 * 1000
\* the time that passes before the page is opened again
Pauses == {0, sevenDays, sevenDays + 1}

\* an item that JSON.parse throws on
Unparsable == Str("{")
\* what a page with another STORAGE_VERSION left behind
OtherVersionDraft ==
    Obj([version |-> Str("v0"), timestamp |-> Num(0),
         data |-> Obj([flight_information |-> Str("old")]), fileMetadata |-> Null])
InitialStorage == {Null, Unparsable, OtherVersionDraft}

FlightTexts == {"", "x"}

\* v.key of an object
Prop(v, key) == IF key \in DOMAIN v.o THEN v.o[key] ELSE Undefined

draftDefaults ==
    [starting_date |-> Str(""), meals_provided |-> Bool(FALSE),
     flight_information |-> Str(""),
     tour_fair_includes |-> StrArr(presetIncludes),
     tour_fair_excludes |-> StrArr(presetExcludes),
     uploaded_file |-> Null, file_size_limit_enabled |-> Bool(TRUE)]

hasData(data) ==
    \/ ~Falsy(data.starting_date)
    \/ ~Falsy(data.meals_provided)
    \/ ~Falsy(data.flight_information)
    \/ ~Falsy(data.uploaded_file)
    \/ ~Falsy(data.tour_fair_includes) /\ Len(data.tour_fair_includes.a) > Len(presetIncludes)
    \/ ~Falsy(data.tour_fair_excludes) /\ Len(data.tour_fair_excludes.a) > Len(presetExcludes)

\* storageData, as JSON.stringify writes it
storageData(data, dataToSave) ==
    JSONStringify(Obj([version |-> Str(STORAGE_VERSION), timestamp |-> Num(clock),
                       data |-> Obj(dataToSave),
                       fileMetadata |->
                           IF Falsy(data.uploaded_file) THEN Null
                           ELSE Obj([filename |-> data.uploaded_file.o.filename,
                                     size |-> data.uploaded_file.o.size,
                                     type |-> data.uploaded_file.o.type])]))

\* saveFormData that leaves the file in the copy
saveFormDataKeepsFile(data) ==
    IF ~hasData(data) THEN storage ELSE storageData(data, data)

\* the item saveFormData(data) leaves in localStorage
saveFormData(data) ==
    IF ~hasData(data) THEN storage
    ELSE storageData(data, IF Falsy(data.uploaded_file) THEN data
                           ELSE [data EXCEPT !.uploaded_file = Null])

\* loadFormData at time t: what it returns and the item it leaves
loadFormData(stored, t) ==
    IF Falsy(stored) THEN [saved |-> Null, item |-> stored]
    ELSE IF stored = Unparsable THEN [saved |-> Null, item |-> Null]
    ELSE IF Prop(stored, "version") # Str(STORAGE_VERSION) THEN [saved |-> Null, item |-> Null]
    ELSE IF t - Prop(stored, "timestamp").n > sevenDays THEN [saved |-> Null, item |-> Null]
    ELSE [saved |-> Obj([data |-> Prop(stored, "data"),
                         hadFile |-> Bool(~Falsy(Prop(stored, "fileMetadata")))]),
          item |-> stored]

getInitialValues(saved) ==
    IF saved # Null /\ ~Falsy(Prop(saved, "data"))
    THEN LET data == Prop(saved, "data")
         IN  [starting_date |-> OrElse(Prop(data, "starting_date"), Str("")),
              meals_provided |-> OrElse(Prop(data, "meals_provided"), Bool(FALSE)),
              flight_information |-> OrElse(Prop(data, "flight_information"), Str("")),
              tour_fair_includes |-> OrElse(Prop(data, "tour_fair_includes"), StrArr(presetIncludes)),
              tour_fair_excludes |-> OrElse(Prop(data, "tour_fair_excludes"), StrArr(presetExcludes)),
              uploaded_file |-> Null,
              file_size_limit_enabled |->
                  IF Prop(data, "file_size_limit_enabled") # Undefined
                  THEN Prop(data, "file_size_limit_enabled") ELSE Bool(TRUE)]
    ELSE draftDefaults

\* the restoring effect's body while hasRestoredData is false, at the mount or later
RestoreEffect(stored, t, mounting) ==
    LET loaded == loadFormData(stored, t)
        found == loaded.saved # Null /\ ~Falsy(Prop(loaded.saved, "data"))
        data == Prop(loaded.saved, "data")
    IN  /\ storage' = loaded.item
        /\ hasRestoredData' = found
        /\ hadFileBeforeRestore' = (found /\ Prop(loaded.saved, "hadFile").b)
        /\ fileSizeLimit' = IF found /\ Prop(data, "file_size_limit_enabled") # Undefined
                            THEN Prop(data, "file_size_limit_enabled").b
                            ELSE IF mounting THEN TRUE ELSE fileSizeLimit

\* the page is opened after a pause: the first render and the effects of the mount
PageLoad(pause) ==
    /\ clock < MaxVisits * (sevenDays + 1) - pause
    /\ page' = DraftPage
    /\ clock' = clock + pause
    /\ formValues' = getInitialValues(loadFormData(storage, clock').saved)
    /\ RestoreEffect(loadFormData(storage, clock').item, clock', TRUE)
    /\ isRestoringData' = TRUE
    /\ isSubmittingSuccessfully' = FALSE
    /\ isPending' = FALSE
    /\ saveTimer' = <<>>
    /\ flagTimer' = FALSE
    /\ renderDue' = TRUE
    /\ restoreDue' = FALSE

\* the effects of a commit that shows the values fv: the file warning is
\* cleared, the save timer of the last commit is cleared and, outside the
\* two windows, a new one is set
Commit(fv) ==
    /\ hadFileBeforeRestore' = (hadFileBeforeRestore /\ Falsy(fv.uploaded_file))
    /\ isRestoringData' = FALSE
    /\ saveTimer' = IF isSubmittingSuccessfully THEN <<>> ELSE <<fv>>
    /\ renderDue' = FALSE
    /\ restoreDue' = FALSE

\* a field's onChange: the handler, the render and its effects
FieldChange(name, v) ==
    /\ page = DraftPage
    /\ ~renderDue
    /\ formValues[name] # v
    /\ formValues' = [formValues EXCEPT ![name] = v]
    /\ Commit(formValues')
    /\ UNCHANGED <<page, clock, storage, isSubmittingSuccessfully, hasRestoredData, flagTimer,
                   fileSizeLimit, isPending>>

\* the switch: only the page's state changes, and the page renders again
onCheckedChange(checked) ==
    /\ page = DraftPage
    /\ ~renderDue
    /\ fileSizeLimit # checked
    /\ fileSizeLimit' = checked
    /\ Commit(formValues)
    /\ UNCHANGED <<page, clock, storage, formValues, isSubmittingSuccessfully, hasRestoredData,
                   flagTimer, isPending>>

\* the rules of the form's schema that bear on the page's fields
draftResolverAccepts(fv) ==
    /\ Len(fv.tour_fair_includes.a) >= 1
    /\ Len(fv.tour_fair_excludes.a) >= 1
    /\ fv.uploaded_file # Null

\* the submit button with values the resolver accepts: mutate, and a render
draftSubmit ==
    /\ page = DraftPage
    /\ ~renderDue
    /\ ~isPending
    /\ draftResolverAccepts(formValues)
    /\ isPending' = TRUE
    /\ Commit(formValues)
    /\ UNCHANGED <<page, clock, storage, formValues, isSubmittingSuccessfully, hasRestoredData,
                   flagTimer, fileSizeLimit>>

\* submitMutation.onSuccess: state is set and the form reset; the render is yet to come
draftOnSuccess ==
    /\ page = DraftPage
    /\ isPending
    /\ ~flagTimer
    /\ isSubmittingSuccessfully' = TRUE
    /\ storage' = Null
    /\ hasRestoredData' = FALSE
    /\ hadFileBeforeRestore' = FALSE
    /\ formValues' = draftDefaults
    /\ fileSizeLimit' = TRUE
    /\ flagTimer' = TRUE
    /\ isPending' = FALSE
    /\ renderDue' = TRUE
    /\ restoreDue' = hasRestoredData
    /\ UNCHANGED <<page, clock, isRestoringData, saveTimer>>

\* submitMutation.onError
draftOnError ==
    /\ page = DraftPage
    /\ isPending
    /\ isPending' = FALSE
    /\ renderDue' = TRUE
    /\ UNCHANGED <<page, clock, storage, formValues, isRestoringData, isSubmittingSuccessfully,
                   hasRestoredData, hadFileBeforeRestore, saveTimer, flagTimer, restoreDue,
                   fileSizeLimit>>

\* the render React had scheduled, and its effects
Render ==
    /\ page = DraftPage
    /\ renderDue
    /\ IF restoreDue
       THEN RestoreEffect(storage, clock, FALSE)
       ELSE /\ hadFileBeforeRestore' = (hadFileBeforeRestore /\ Falsy(formValues.uploaded_file))
            /\ UNCHANGED <<storage, hasRestoredData, fileSizeLimit>>
    /\ isRestoringData' = FALSE
    /\ saveTimer' = IF isSubmittingSuccessfully THEN <<>> ELSE <<formValues>>
    /\ renderDue' = FALSE
    /\ restoreDue' = FALSE
    /\ UNCHANGED <<page, clock, formValues, isSubmittingSuccessfully, flagTimer, isPending>>

\* the save timer's callback: saveFormData with the values of its render
SaveTimerFires ==
    /\ page = DraftPage
    /\ saveTimer # <<>>
    /\ storage' = saveFormData(saveTimer[1])
    /\ saveTimer' = <<>>
    /\ renderDue' = TRUE
    /\ UNCHANGED <<page, clock, formValues, isRestoringData, isSubmittingSuccessfully,
                   hasRestoredData, hadFileBeforeRestore, flagTimer, restoreDue, fileSizeLimit,
                   isPending>>

\* the callback of onSuccess's timer, a second after it
FlagTimerFires ==
    /\ page = DraftPage
    /\ flagTimer
    /\ ~renderDue
    /\ isSubmittingSuccessfully' = FALSE
    /\ flagTimer' = FALSE
    /\ renderDue' = TRUE
    /\ UNCHANGED <<page, clock, storage, formValues, isRestoringData, hasRestoredData,
                   hadFileBeforeRestore, saveTimer, restoreDue, fileSizeLimit, isPending>>

NextDraft ==
    \/ \E pause \in Pauses : PageLoad(pause)
    \/ \E text \in FlightTexts : FieldChange("flight_information", Str(text))
    \/ \E file \in AttachedFiles \cup {Null} : FieldChange("uploaded_file", file)
    \/ FieldChange("tour_fair_includes", StrArr(Tail(presetIncludes)))
    \/ \E checked \in BOOLEAN : onCheckedChange(checked)
    \/ draftSubmit
    \/ draftOnSuccess
    \/ draftOnError
    \/ Render
    \/ SaveTimerFires
    \/ FlagTimerFires

InitDraft ==
    /\ clock = 0
    /\ formValues = draftDefaults
    /\ isRestoringData = TRUE
    /\ isSubmittingSuccessfully = FALSE
    /\ hasRestoredData = FALSE
    /\ hadFileBeforeRestore = FALSE
    /\ saveTimer = <<>>
    /\ flagTimer = FALSE
    /\ renderDue = FALSE
    /\ restoreDue = FALSE

(***************************************************************************)
(* Specifications                                                          *)
(***************************************************************************)
vars == <<serverVars, storeVars, browserVars, reactVars, vanillaVars, templateVars, widgetVars>>

\* the lists' letters are as the page loads them
WidgetsIdle ==
    /\ InitLabels
    /\ InitUpload
    /\ InitDraft
    /\ storage = Null
    /\ InitLists

\* no request is being served
ServerIdle ==
    /\ InitServer
    /\ env = [N8N_WEBHOOK_URL |-> Undefined, WEBHOOK_URL |-> Undefined]

\* no page is in use
ClientIdle ==
    /\ page = ReactPage
    /\ editsInFlight = 0
    /\ InitReact
    /\ InitVanilla
    /\ items = <<>>
    /\ parts = <<>>
    /\ rendered = FALSE
    /\ WidgetsIdle

\* the endpoint serving requests
Init == InitServer /\ InitStore /\ ClientIdle
Next == NextServer /\ UNCHANGED <<storeVars, browserVars, reactVars, vanillaVars, templateVars, widgetVars>>
Spec == Init /\ [][Next]_vars

\* the store driven through its interface
InitStoreOnly == ServerIdle /\ InitStore /\ ClientIdle
NextStoreOnly ==
    NextStore /\ UNCHANGED <<serverVars, browserVars, reactVars, vanillaVars, templateVars, widgetVars>>
SpecStore == InitStoreOnly /\ [][NextStoreOnly]_vars

\* one of the two forms in a browser
InitForm ==
    /\ ServerIdle
    /\ InitStore
    /\ page \in Pages
    /\ editsInFlight = 0
    /\ InitReact
    /\ InitVanilla
    /\ items = <<>>
    /\ parts = <<>>
    /\ rendered = FALSE
    /\ WidgetsIdle
NextForm ==
    \/ NextReact /\ UNCHANGED <<serverVars, storeVars, page, vanillaVars, templateVars, widgetVars>>
    \/ NextVanilla /\ UNCHANGED <<serverVars, storeVars, page, reactVars, templateVars, widgetVars>>
SpecForm == InitForm /\ [][NextForm]_vars

\* one item of the special terms
InitTemplateOnly ==
    /\ ServerIdle
    /\ InitStore
    /\ page = ReactPage
    /\ editsInFlight = 0
    /\ InitReact
    /\ InitVanilla
    /\ InitTemplate
    /\ WidgetsIdle
NextTemplateOnly ==
    NextTemplate /\ UNCHANGED <<serverVars, storeVars, browserVars, reactVars, vanillaVars, widgetVars>>
SpecTemplate == InitTemplateOnly /\ [][NextTemplateOnly]_vars

\* a list of terms
InitTermsOnly ==
    /\ ServerIdle
    /\ InitStore
    /\ page = ReactPage
    /\ editsInFlight = 0
    /\ InitReact
    /\ InitVanilla
    /\ InitTerms
    /\ WidgetsIdle
SpecTerms == InitTermsOnly /\ [][NextTemplateOnly]_vars

\* a list of terms most of which have no placeholder
InitPlainOnly ==
    /\ ServerIdle
    /\ InitStore
    /\ page = ReactPage
    /\ editsInFlight = 0
    /\ InitReact
    /\ InitVanilla
    /\ InitPlain
    /\ WidgetsIdle
NextPlainOnly ==
    NextPlain /\ UNCHANGED <<serverVars, storeVars, browserVars, reactVars, vanillaVars, widgetVars>>
SpecPlain == InitPlainOnly /\ [][NextPlainOnly]_vars

\* everything but the widgets
RestIdle ==
    /\ ServerIdle
    /\ InitStore
    /\ editsInFlight = 0
    /\ InitReact
    /\ InitVanilla
    /\ items = <<>>
    /\ parts = <<>>
    /\ rendered = FALSE
restVars == <<serverVars, storeVars, browserVars, reactVars, vanillaVars, templateVars>>

\* the lists of the script-driven form and their letters
InitLabelsOnly == RestIdle /\ page = VanillaPage /\ WidgetsIdle
NextLabelsOnly == NextLabels /\ UNCHANGED <<restVars, uploadVars, dragVars, draftVars, listVars>>
SpecLabels == InitLabelsOnly /\ [][NextLabelsOnly]_vars

\* the upload of the extended page, its size-limit switch and one more field
InitUploadOnly == RestIdle /\ page = ReactPage /\ WidgetsIdle
NextUploadOnly ==
    NextUpload /\ UNCHANGED <<serverVars, storeVars, vanillaVars, templateVars, labelVars, draftVars,
                            listVars>>
SpecUpload == InitUploadOnly /\ [][NextUploadOnly]_vars

\* the same with the drag events
NextDragOnly ==
    NextDrag /\ UNCHANGED <<serverVars, storeVars, vanillaVars, templateVars, labelVars, draftVars,
                          listVars>>
SpecDrag == InitUploadOnly /\ [][NextDragOnly]_vars

\* clients submitting accepted bodies at the same time, with a target that
\* answers in JSON, and callers of the store creating a booking each
ConcurrentBodies == {Obj(BaseBooking), Obj(With(BaseBooking, "uploaded_file", Null))}
ConcurrentAnswers == {payload \in DownstreamBodies : payload.readable /\ payload.json # Undefined}
InitConcurrent == Init /\ ~Truthy(env.WEBHOOK_URL)
NextConcurrent ==
    \/ /\ \/ \E r \in Requests, b \in ConcurrentBodies : PostTravelBooking(r, b)
          \/ \E r \in Requests : FetchRejects(r)
          \/ \E r \in Requests, resp \in DownstreamResponses : FetchResolves(r, resp)
          \/ \E r \in Requests, payload \in ConcurrentAnswers : TextSettles(r, payload)
          \/ \E r \in Requests, payload \in ConcurrentAnswers : JsonSettles(r, payload)
       /\ UNCHANGED storeVars
    \/ /\ Len(returned) < MaxRequests
       /\ createTravelBooking(ParsedBodies[Obj(BaseBooking)].value)
       /\ UNCHANGED serverVars
SpecConcurrent ==
    InitConcurrent /\ [][NextConcurrent /\ UNCHANGED <<browserVars, reactVars, vanillaVars,
                                                         templateVars, widgetVars>>]_vars

\* the autosaving page over several visits
InitDraftOnly ==
    /\ RestIdle
    /\ page = BlankPage
    /\ InitLabels
    /\ InitUpload
    /\ InitDraft
    /\ InitLists
    /\ storage \in InitialStorage
NextDraftOnly ==
    NextDraft /\ UNCHANGED <<serverVars, storeVars, editsInFlight, values, errors, submitCount,
                             mutations, vanillaVars, templateVars, labelVars, uploadVars,
                             dragVars, listVars>>
SpecDraft == InitDraftOnly /\ [][NextDraftOnly]_vars

\* either form with its upload, its size-limit switch and its submissions; a
\* reset of the React form that takes the value of FileUpload to null runs
\* its effect, which clears the input and the error
MutationSettlesUpload(i, outcome) ==
    /\ MutationSettles(i, outcome)
    /\ IF outcome = "ok" /\ values.uploaded_file # Null
       THEN error' = Null /\ fileInput' = <<>>
       ELSE UNCHANGED <<error, fileInput>>
    /\ UNCHANGED <<isProcessing, reading>>
NextLimit ==
    \/ NextUpload /\ UNCHANGED vanillaVars
    \/ handleSubmit /\ UNCHANGED <<page, uploadVars, dragVars, vanillaVars>>
    \/ /\ \E i \in 1..Len(mutations), outcome \in RequestOutcomes : MutationSettlesUpload(i, outcome)
       /\ UNCHANGED <<page, dragVars, vanillaVars>>
    \/ NextVanilla /\ UNCHANGED <<page, reactVars, uploadVars, dragVars>>
SpecLimit ==
    InitForm /\ [][NextLimit /\ UNCHANGED <<serverVars, storeVars, templateVars, labelVars,
                                             draftVars, listVars>>]_vars

\* a list component on its own
InitListsOnly ==
    /\ ServerIdle
    /\ InitStore
    /\ page = ReactPage
    /\ editsInFlight = 0
    /\ InitReact
    /\ InitVanilla
    /\ InitLabels
    /\ InitUpload
    /\ InitDraft
    /\ storage = Null
    /\ InitMounted
NextListsOnly ==
    NextLists /\ UNCHANGED <<serverVars, storeVars, browserVars, reactVars, vanillaVars, labelVars,
                             uploadVars, dragVars, draftVars>>
SpecLists == InitListsOnly /\ [][NextListsOnly]_vars


(***************************************************************************)
(* Properties of the endpoint                                              *)
(***************************************************************************)
\* what the endpoint's schema asks of each top-level field, stated field by field
ExpectedType ==
    [starting_date |-> "string", meals_provided |-> "boolean",
     flight_information |-> "string", number_of_delegates |-> "number",
     number_of_tour_leaders |-> "number", hotel_selection |-> "string",
     tour_fare |-> "number", single_supplement |-> "number",
     special_terms_enabled |-> "boolean", special_terms |-> "array",
     tour_fair_includes |-> "array", tour_fair_excludes |-> "array",
     uploaded_file |-> "object", markdown_content |-> "string",
     file_size_limit_enabled |-> "boolean", itinerary_language |-> "string"]
NullableKeys == {"starting_date", "tour_fare", "single_supplement", "uploaded_file"}
FileFieldType ==
    [filename |-> "string", size |-> "number", type |-> "string", data |-> "string"]

\* the places of one top-level field whose value has the wrong type
FieldFailures(key, v) ==
    IF v.t = "null" /\ key \in NullableKeys THEN {}
    ELSE IF v.t # ExpectedType[key] THEN {key}
    ELSE IF v.t = "array"
         THEN {key \o "." \o IndexStr(i - 1) : i \in {j \in 1..Len(v.a) : v.a[j].t # "string"}}
    ELSE IF v.t = "object"
         THEN {key \o "." \o x : x \in {y \in DOMAIN FileFieldType :
                                          Get(v.o, y).t # FileFieldType[y]}}
    ELSE {}

\* the failing fields of a request body
FailingFields(b) ==
    IF b.t # "object" THEN {""}
    ELSE UNION {FieldFailures(key, Get(b.o, key)) : key \in DOMAIN ExpectedType}

SchemaValid(b) == FailingFields(b) = {}

Configured == Truthy(env.N8N_WEBHOOK_URL) \/ Truthy(env.WEBHOOK_URL)

\* the forward of request r got a non-2xx answer or failed in transport
ForwardFailed(r) ==
    \/ fetchPromise[r] = "rejected"
    \/ fetchPromise[r] = "fulfilled" /\ ~Ok(response[r].status)

\* C1: a schema-valid request whose forward fails (non-2xx answer or transport
\* failure) is answered exactly once, with status 200, success: true and a
\* webhookError marker; a schema-valid request is never answered 4xx or 5xx.
C1_ForwardFailureStillSuccess ==
    \A r \in Requests :
      (pc[r] # "idle" /\ SchemaValid(body[r]) /\ Configured) =>
        /\ \A i \in 1..Len(sent[r]) : sent[r][i].status = 200
        /\ (pc[r] = "done" /\ ForwardFailed(r)) =>
             /\ Len(sent[r]) = 1
             /\ sent[r][1].body.success = TRUE
             /\ "webhookError" \in DOMAIN sent[r][1].body

\* one request answered after a transport failure, another after a 500 from the target
C1_Witness ==
    \E r1, r2 \in Requests :
      /\ pc[r1] = "done" /\ fetchPromise[r1] = "rejected" /\ sent[r1] # <<>>
      /\ pc[r2] = "done" /\ fetchPromise[r2] = "fulfilled" /\ response[r2].status = 500
      /\ sent[r2] # <<>>

\* C2: a body that fails validation is answered 400 with success: false, message
\* "Validation error" and one errors entry per failing field; no forward is made
\* for it and nothing is put into the store.
C2_ValidationErrorResponse ==
    \A r \in Requests :
      (pc[r] # "idle" /\ ~SchemaValid(body[r])) =>
        /\ pc[r] = "done"
        /\ Len(sent[r]) = 1
        /\ sent[r][1].status = 400
        /\ sent[r][1].body.success = FALSE
        /\ sent[r][1].body.message = "Validation error"
        /\ LET reported == sent[r][1].body.errors
           IN  /\ {reported[i].field : i \in 1..Len(reported)} = FailingFields(body[r])
               /\ Len(reported) = Cardinality(FailingFields(body[r]))
        /\ outbound[r] = <<>>
        /\ fetchPromise[r] = "none"
        /\ travelBookings = <<>>

\* a body with several failing fields has been answered, with a URL configured
C2_Witness ==
    \E r \in Requests :
      /\ Configured
      /\ pc[r] = "done"
      /\ Cardinality(FailingFields(body[r])) >= 2

\* a body the form's rules forbid: no file, no language, or an empty list
LaxBody(b) ==
    /\ b.t = "object"
    /\ \/ Get(b.o, "uploaded_file") = Null
       \/ Get(b.o, "itinerary_language") = Str("")
       \/ Get(b.o, "tour_fair_includes") = Arr(<<>>)
       \/ Get(b.o, "tour_fair_excludes") = Arr(<<>>)

\* C3: a body whose uploaded_file is null, whose itinerary_language is empty or
\* whose includes or excludes list is empty is answered with a client-error
\* status and success: false; for an empty language the errors name
\* itinerary_language.
C3_LaxBodiesRejected ==
    \A r \in Requests :
      (pc[r] = "done" /\ LaxBody(body[r])) =>
        /\ sent[r][1].status >= 400 /\ sent[r][1].status <= 499
        /\ sent[r][1].body.success = FALSE
        /\ Get(body[r].o, "itinerary_language") = Str("") =>
             \E i \in 1..Len(sent[r][1].body.errors) :
               sent[r][1].body.errors[i].field = "itinerary_language"

\* C4: once an accepted submission has been answered, the store holds a record
\* for it with an identifier and a creation time.
C4_AcceptedSubmissionStored ==
    \A r \in Requests :
      (sent[r] # <<>> /\ sent[r][1].body.success) =>
        \E id \in DOMAIN travelBookings :
          /\ {"id", "createdAt"} \subseteq DOMAIN travelBookings[id].o
          /\ Without(Without(travelBookings[id].o, "id"), "createdAt") = validatedData[r].o

\* C5: with no forwarding URL configured a schema-valid request makes no outbound
\* call and is answered success: true, with the "no webhook configured" message
\* and a data echo equal to the validated payload.
C5_NoWebhookEcho ==
    \A r \in Requests :
      (pc[r] # "idle" /\ SchemaValid(body[r])
         /\ env.N8N_WEBHOOK_URL = Undefined /\ env.WEBHOOK_URL = Undefined) =>
        /\ outbound[r] = <<>>
        /\ Len(sent[r]) = 1
        /\ sent[r][1].status = 200
        /\ sent[r][1].body.success = TRUE
        /\ sent[r][1].body.message =
             "Travel booking received successfully (no webhook configured)"
        /\ sent[r][1].body.data = validatedData[r]

\* C6: a forward is made only for a request that passed validation, at most once
\* per request, with exactly the validated payload as its body, and the request
\* is answered only after its forward has completed or failed.
C6_ForwardExactlyValidated ==
    \A r \in Requests :
      /\ Len(outbound[r]) <= 1
      /\ outbound[r] # <<>> =>
           /\ SchemaValid(body[r])
           /\ outbound[r][1].body = validatedData[r]
      /\ (outbound[r] # <<>> /\ sent[r] # <<>>) =>
           fetchPromise[r] \in {"fulfilled", "rejected"}

(***************************************************************************)
(* Properties of the store                                                 *)
(***************************************************************************)
ReturnedIds == {returned[i].booking.o.id.s : i \in 1..Len(returned)}

\* C7: create returns its argument with every field unchanged plus id and
\* createdAt; get of a returned id yields that same record ever after; get of any
\* other id yields undefined; no stored record is changed or removed, so n
\* creates leave n records.
C7_StoreCreateGet ==
    /\ \A i \in 1..Len(returned) :
         LET given == returned[i].bookingData.o
             made == returned[i].booking.o
         IN  /\ DOMAIN made = DOMAIN given \cup {"id", "createdAt"}
             /\ \A key \in DOMAIN given : made[key] = given[key]
             /\ made.id.t = "string"
             /\ made.createdAt.t = "date"
             /\ made.id.s \in DOMAIN travelBookings
             /\ travelBookings[made.id.s] = returned[i].booking
    /\ DOMAIN travelBookings = ReturnedIds
    /\ Cardinality(DOMAIN travelBookings) = Len(returned)
    /\ IF lookup.id \in ReturnedIds
       THEN lookup.result \in {Undefined} \cup
              {returned[i].booking : i \in {j \in 1..Len(returned) :
                                             returned[j].booking.o.id.s = lookup.id}}
       ELSE lookup.result = Undefined

\* the same booking created twice at different times, and one record looked up
C7_Witness ==
    /\ Len(returned) >= 2
    /\ \E i, j \in 1..Len(returned) :
         /\ i # j
         /\ returned[i].bookingData = returned[j].bookingData
         /\ returned[i].booking.o.createdAt # returned[j].booking.o.createdAt
    /\ lookup.result # Undefined

(***************************************************************************)
(* Properties of the forms                                                 *)
(***************************************************************************)
\* the fields of the React form that fall short of the strict form schema,
\* stated field by field
StrictFailing(vals) ==
    {f \in {"uploaded_file"} : vals.uploaded_file = Null}
    \cup {f \in {"itinerary_language", "hotel_selection"} : vals[f] = Str("")}
    \cup {f \in {"number_of_delegates", "number_of_tour_leaders"} :
            ~(IsFinite(vals[f]) /\ vals[f].n >= 1)}
    \cup {f \in {"tour_fair_includes", "tour_fair_excludes"} : vals[f] = Arr(<<>>)}

\* the form groups of the script-driven form that are not filled in
VanillaFailing ==
    {listId \in ListIds : \E i \in DOMAIN customItems[listId] : customItems[listId][i] \in {"", " "}}
    \cup {g \in {"documentUpload"} : Len(files) = 0}

\* C8: a submit attempt issues a network request only if every required field
\* satisfies the strict form schema (uploaded_file non-null, itinerary_language
\* and hotel_selection non-empty, both counts at least 1, both lists non-empty);
\* otherwise no request is sent, the form state is unchanged and the errors are
\* those of the current values, with an error on uploaded_file when it is null.
\* The script-driven form, which has none of the other fields, sends a request
\* only with a file attached and no required input blank.
C8_SubmitOnlyIfValid ==
    [][ /\ (page = ReactPage /\ submitCount' = submitCount + 1) =>
              IF StrictFailing(values) = {}
              THEN /\ Len(mutations') = Len(mutations) + 1
                   /\ StrictFailing(mutations'[Len(mutations')].o) = {}
                   /\ \A f \in DOMAIN values \ {"starting_date", "file_size_limit_enabled"} :
                         mutations'[Len(mutations')].o[f] = values[f]
              ELSE /\ mutations' = mutations
                   /\ values' = values
                   /\ fileSizeLimit' = fileSizeLimit
                   /\ DOMAIN errors' = StrictFailing(values)
                   /\ values.uploaded_file = Null => "uploaded_file" \in DOMAIN errors'
        /\ (page = ReactPage /\ mutations' # mutations /\ Len(mutations') >= Len(mutations)) =>
              /\ submitCount' = submitCount + 1
              /\ StrictFailing(values) = {}
        /\ (page = VanillaPage /\ Len(handlers') > Len(handlers)) =>
              /\ VanillaFailing = {}
              /\ handlers'[Len(handlers')].file = files[1]
              /\ handlers'[Len(handlers')].data.tour_fair_includes.a # <<>>
              /\ handlers'[Len(handlers')].data.tour_fair_excludes.a # <<>>
        /\ (page = VanillaPage /\ statusMessages' = FixMessage /\ statusMessages # FixMessage) =>
              /\ VanillaFailing # {}
              /\ handlers' = handlers
              /\ <<customItems', files', fileSizeLimitChecked'>>
                    = <<customItems, files, fileSizeLimitChecked>>
              /\ errorGroups' = VanillaFailing
        /\ \A h \in DOMAIN handlers' :
              handlers'[h].pc = "fetch" => handlers'[h].data.uploaded_file # Null
      ]_vars

\* a second attempt in a row has failed with no file attached
C8_Witness ==
    /\ page = ReactPage
    /\ submitCount = MaxSubmits
    /\ values.uploaded_file = Null
    /\ "uploaded_file" \in DOMAIN errors
    /\ values.hotel_selection # Str("")
    /\ mutations = <<>>

WellFormed(s, i, j) ==
    /\ 1 <= i /\ i + 4 <= j /\ j <= Len(s)
    /\ s[i] = "{" /\ s[i + 1] = "{" /\ s[j - 1] = "}" /\ s[j] = "}"
    /\ \A k \in (i + 2)..(j - 2) : s[k] # "}"

\* where the well-formed spans of s end; spans that end at different places
\* do not overlap
SpanEnds(s) == {j \in 1..Len(s) : \E i \in 1..j : WellFormed(s, i, j)}

\* the inner texts of the spans of s from left to right, each span taken from
\* its leftmost opening
SpanInners(s) ==
    [n \in 1..Cardinality(SpanEnds(s)) |->
        LET j == CHOOSE e \in SpanEnds(s) : Cardinality({d \in SpanEnds(s) : d < e}) = n - 1
            i == Min({b \in 1..j : WellFormed(s, b, j)})
        IN  SubSeq(s, i + 2, j - 2)]

PlaceholderContents(ps) ==
    LET chosen == SelectSeq(ps, LAMBDA p : p.type = "placeholder")
    IN  [n \in 1..Len(chosen) |-> chosen[n].content]

\* C10: for a string with N well-formed {{...}} spans the segmentation yields
\* exactly N placeholder segments in left-to-right order, each holding the
\* inner text of its span, and joining all segments with the placeholders
\* wrapped in {{ }} again gives the string back
C10_SegmentationRoundTrip ==
    rendered =>
        \A i \in 1..Len(items) :
            /\ PlaceholderContents(parts[i]) = SpanInners(items[i])
            /\ Reconstruct(parts[i]) = items[i]

\* an item with two placeholders has been rendered
C10_Witness ==
    /\ rendered
    /\ Len(items) = 1
    /\ Len(PlaceholderContents(parts[1])) = 2
    /\ Reconstruct(parts[1]) = items[1]

\* the n-th well-formed span of s from the left, taken from its leftmost
\* opening: where it begins and where it ends
SpanAt(s, n) ==
    LET j == CHOOSE e \in SpanEnds(s) : Cardinality({d \in SpanEnds(s) : d < e}) = n - 1
        i == Min({b \in 1..j : WellFormed(s, b, j)})
    IN  <<i, j>>

\* s with the inner text of its n-th span replaced by v and nothing else changed
ReplaceInner(s, n, v) ==
    LET span == SpanAt(s, n)
    IN  SubSeq(s, 1, span[1] + 1) \o v \o SubSeq(s, span[2] - 1, Len(s))

\* C11: editing placeholder k of item i writes back, as the new value of item
\* i, the item's text with only the inner text of placeholder k replaced;
\* every literal segment, every other placeholder and every other item are
\* unchanged, and so are the length and the order of the list
C11_PlaceholderEditFrame ==
    [][ \A i \in DOMAIN items :
          (items'[i] # items[i] /\ SpanEnds(items[i]) # {}) =>
              /\ Len(items') = Len(items)
              /\ \A j \in DOMAIN items \ {i} : items'[j] = items[j]
              /\ \E n \in 1..Cardinality(SpanEnds(items[i])), v \in EditValues :
                    items'[i] = ReplaceInner(items[i], n, v)
      ]_vars

\* the first placeholder of the second of two items has been emptied
C11_Witness ==
    /\ rendered
    /\ items = << <<"x", "y">>,
                  <<"{", "{", "}", "}", "{", "{", "b", "}", "}">> >>
    /\ Len(parts[2]) = 2

(***************************************************************************)
(* Properties of the lists' letters                                        *)
(***************************************************************************)
\* the i-th lowercase letter, counting from 0, where there is one
IsLowercaseLetter(code, i) == i \in 0..25 /\ code = 97 + i

\* C12: the letter shown at position i of a list is the i-th lowercase
\* letter, whatever was appended and removed before.
C12_LettersArePositional ==
    \A listId \in ListIds : \A r \in 1..Len(rows[listId]) :
        IsLowercaseLetter(rows[listId][r], presetCounts[listId] + r - 1)

(***************************************************************************)
(* Properties of the upload                                                *)
(***************************************************************************)
\* the step hands the file to handleFile, by the input or by a drop
Handled(file) == handleFileSelect(file) \/ handleDrop(file)

\* C13: when handleFile is given a file whose extension is not accepted, the
\* value stays null, the error becomes a non-empty string, and nothing of the
\* file is kept: no read is started and none is in progress.
C13_RejectedTypeLeavesNothing ==
    [][ \A file \in Candidates :
          (Handled(file) /\ fileExtension(file) \notin acceptedTypes) =>
              /\ values'.uploaded_file = Null
              /\ error'.t = "string" /\ error'.s # ""
              /\ reading' = <<>>
              /\ ~isProcessing'
      ]_vars

\* a text file was picked and turned down
C13_Witness ==
    /\ fileInput = <<NotesTxt>>
    /\ error = Str(InvalidTypeMessage)
    /\ values.uploaded_file = Null
    /\ reading = <<>>

\* C14: a file of an accepted type is turned down for its size exactly when
\* the size-limit switch is on and the file is larger than 10,485,760 bytes;
\* a file that fails both checks is reported for its type.
C14_SizeLimitFollowsSwitch ==
    [][ \A file \in Candidates :
          Handled(file) =>
              IF fileExtension(file) \notin acceptedTypes
              THEN error' = Str(InvalidTypeMessage)
              ELSE (error' = Str(SizeLimitMessage)) <=> (fileSizeLimit /\ file.size > TenMB)
      ]_vars

\* C15: removing the attachment leaves the value null, the error cleared and
\* the input empty, and changes no other field nor the size-limit switch.
C15_RemovalFrame ==
    [][ (values.uploaded_file # Null /\ values'.uploaded_file = Null) =>
            /\ values' = [values EXCEPT !.uploaded_file = Null]
            /\ error' = Null
            /\ fileInput' = <<>>
            /\ fileSizeLimit' = fileSizeLimit
      ]_vars

\* a picked file is attached, with another field filled in and the switch off:
\* the remove button is there to be pressed
C15_Witness ==
    /\ values.uploaded_file # Null
    /\ fileInput = <<PlanPdf>>
    /\ values.hotel_selection = Str("Hilton")
    /\ ~fileSizeLimit

(***************************************************************************)
(* Properties of the draft                                                 *)
(***************************************************************************)
\* the item is a draft of this version of the page
IsDraft(item) == item.t = "object" /\ Prop(item, "version") = Str(STORAGE_VERSION)

\* the item is a draft of this version written no more than seven days before t
Restorable(item, t) == IsDraft(item) /\ t - item.o.timestamp.n <= sevenDays

\* the draft of the values fv written at time t
StoredDraft(fv, t) ==
    Obj([version |-> Str(STORAGE_VERSION), timestamp |-> Num(t),
         data |-> Obj([fv EXCEPT !.uploaded_file = Null]),
         fileMetadata |->
             IF fv.uploaded_file = Null THEN Null
             ELSE Obj([filename |-> fv.uploaded_file.o.filename,
                       size |-> fv.uploaded_file.o.size,
                       type |-> fv.uploaded_file.o.type])])

\* the fields come from the draft, without the file, when the page is opened
\* over a draft of this version written within seven days; any other item is
\* removed and the form starts from its defaults
LoadFollowsDraft ==
    \A pause \in Pauses :
        PageLoad(pause) =>
            IF Restorable(storage, clock')
            THEN /\ \A name \in DOMAIN draftDefaults \ {"uploaded_file"} :
                        formValues'[name] = storage.o.data.o[name]
                 /\ formValues'.uploaded_file = Null
                 /\ fileSizeLimit' = storage.o.data.o.file_size_limit_enabled.b
                 /\ storage' = storage
            ELSE /\ formValues' = draftDefaults
                 /\ fileSizeLimit' = TRUE
                 /\ storage' = Null

\* C16: opening the page over a draft of this version written within seven
\* days takes every field from the draft except the file, which is null, and
\* the size-limit switch is the one the user had chosen: the draft records
\* the switch as it stood when it was written. Any other item is removed and
\* the form starts from its defaults.
C16_LoadRestoresDraft ==
    [][ /\ LoadFollowsDraft
        /\ (SaveTimerFires /\ hasData(saveTimer[1])) =>
               storage'.o.data.o.file_size_limit_enabled = Bool(fileSizeLimit)
      ]_vars

\* C17: the draft in storage never holds the file's bytes: its
\* data.uploaded_file is null, its fileMetadata is null or holds filename,
\* size and type only, and a write leaves fileMetadata non-null exactly when
\* the values it wrote had a file.
C17_DraftHoldsNoFile ==
    /\ [](IsDraft(storage) =>
            /\ storage.o.data.o.uploaded_file = Null
            /\ \/ storage.o.fileMetadata = Null
               \/ /\ storage.o.fileMetadata.t = "object"
                  /\ DOMAIN storage.o.fileMetadata.o = {"filename", "size", "type"})
    /\ [][ (SaveTimerFires /\ hasData(saveTimer[1])) =>
              /\ IsDraft(storage')
              /\ storage'.o.fileMetadata # Null <=> saveTimer[1].uploaded_file # Null
         ]_vars

\* a draft written with a file attached
C17_Witness ==
    /\ IsDraft(storage)
    /\ storage.o.fileMetadata # Null
    /\ storage.o.data.o.uploaded_file = Null

\* C18: nothing is written to storage while the restore is in progress or
\* while the success flag is set, and a successful submission leaves no draft.
C18_NoWriteInWindows ==
    [][ /\ (storage' # storage /\ storage' # Null) =>
               ~isRestoringData /\ ~isSubmittingSuccessfully
        /\ draftOnSuccess => storage' = Null
      ]_vars

\* C19: outside the two windows, when the save timer fires over values that
\* are not the defaults, the timer was set with the current values and the
\* item in storage becomes the draft of the current values at this time.
C19_QuietPeriodStoresState ==
    [][ (SaveTimerFires /\ ~isSubmittingSuccessfully /\ formValues # draftDefaults) =>
            /\ saveTimer[1] = formValues
            /\ storage' = StoredDraft(formValues, clock)
      ]_vars

(***************************************************************************)
(* Properties of concurrent submissions                                    *)
(***************************************************************************)
\* C20: however accepted submissions interleave, each is answered once and
\* from its own payload: the echo and the forward carry the body of that
\* request. Each create of the store takes an identifier no other create
\* took, so n creates leave n records, each as its own create returned it.
C20_SubmissionsIsolated ==
    /\ \A r \in Requests :
         pc[r] # "idle" =>
           LET own == JSONStringify(ParsedBodies[body[r]].value)
           IN  /\ validatedData[r] = ParsedBodies[body[r]].value
               /\ \A i \in 1..Len(outbound[r]) : outbound[r][i].body = own
               /\ pc[r] = "done" =>
                    /\ Len(sent[r]) = 1
                    /\ sent[r][1].status = 200
                    /\ "data" \in DOMAIN sent[r][1].body => sent[r][1].body.data = own
                    /\ "webhookResponse" \in DOMAIN sent[r][1].body =>
                          /\ Len(outbound[r]) = 1
                          /\ fetchPromise[r] = "fulfilled"
    /\ \A i, j \in 1..Len(returned) :
         i # j => returned[i].booking.o.id # returned[j].booking.o.id
    /\ Cardinality(DOMAIN travelBookings) = Len(returned)
    /\ \A i \in 1..Len(returned) :
         /\ travelBookings[returned[i].booking.o.id.s] = returned[i].booking
         /\ \A key \in DOMAIN returned[i].bookingData.o :
              returned[i].booking.o[key] = returned[i].bookingData.o[key]

\* two requests with different bodies were in flight together and both were
\* answered with an echo, and two creates were made
C20_Witness ==
    /\ \E r1, r2 \in Requests :
         /\ body[r1] # body[r2]
         /\ pc[r1] = "done" /\ pc[r2] = "done"
         /\ outbound[r1] # <<>> /\ outbound[r2] # <<>>
         /\ "data" \in DOMAIN sent[r1][1].body
         /\ "data" \in DOMAIN sent[r2][1].body
    /\ Len(returned) >= 2

(***************************************************************************)
(* Properties of items without placeholders                                *)
(***************************************************************************)
\* C21: an item whose text has no well-formed {{...}} span (an opening
\* without a closing, an empty pair, an inner text with a single }) has no
\* placeholder segment: its parts are the whole text as one literal segment,
\* or nothing for the empty text, whatever items were segmented before it,
\* and it is shown as one plain field. A change of such an item replaces the
\* whole item by the value typed and leaves the other items alone.
C21_MalformedIsPlain ==
    /\ [](rendered =>
            \A i \in 1..Len(items) :
                SpanEnds(items[i]) = {} =>
                    /\ PlaceholderContents(parts[i]) = <<>>
                    /\ IsPlain(parts[i])
                    /\ parts[i] = IF items[i] = <<>> THEN <<>> ELSE <<TextPart(items[i])>>)
    /\ [][ \A i \in DOMAIN items :
             (items'[i] # items[i] /\ SpanEnds(items[i]) = {}) =>
                 /\ items'[i] \in EditValues
                 /\ \A j \in DOMAIN items \ {i} : items'[j] = items[j]
                 /\ Len(items') = Len(items)
         ]_vars

\* after an item with a placeholder, an item that was replaced by a single }
\* is shown plain
C21_Witness ==
    /\ rendered
    /\ Len(items) = 2
    /\ SpanEnds(items[1]) # {}
    /\ items[2] = <<"}">>
    /\ parts[2] = <<TextPart(<<"}">>)>>

(***************************************************************************)
(* Properties of the drop zone                                             *)
(***************************************************************************)
\* C22: the counter of the drop zone is the number of dragenter events minus
\* the number of dragleave events since the last drop, and never negative;
\* the drag-active state goes from set to cleared only in a step that leaves
\* the counter at 0 (the last dragleave, or a drop); a drop leaves the counter
\* at 0 and both drag-active and drag-over cleared.
C22_DragCounter ==
    /\ [](dragCounter = enters - leaves /\ dragCounter >= 0)
    /\ [][(dragActive /\ ~dragActive') => dragCounter' = 0]_vars
    /\ [][(\E file \in Candidates \cup {NoFile} : handleDrop(file)) =>
              (dragCounter' = 0 /\ ~dragActive' /\ ~dragOver')]_vars

\* the pointer entered the zone, entered a child of it and left the zone for
\* the child: the zone is still shown as active
C22_Witness ==
    /\ enters = 2
    /\ leaves = 1
    /\ dragCounter = 1
    /\ dragActive
    /\ dragOver

(***************************************************************************)
(* Properties of the list components                                       *)
(***************************************************************************)
\* s is blank after trimming
Blank(s) == \A i \in 1..Len(s) : s[i] = " "

\* s without the blanks before its first and after its last other character
Trimmed(s) ==
    LET others == {i \in 1..Len(s) : s[i] # " "}
    IN  IF others = {} THEN <<>>
        ELSE SubSeq(s, CHOOSE i \in others : \A j \in others : i <= j,
                       CHOOSE i \in others : \A j \in others : j <= i)

\* list without its element at position pos, the others in their order
Deleted(list, pos) ==
    [n \in 1..(Len(list) - 1) |-> IF n < pos THEN list[n] ELSE list[n + 1]]

\* list with element pos replaced by v and every other element as it was
Replaced(list, pos, v) ==
    [n \in 1..Len(list) |-> IF n = pos THEN v ELSE list[n]]

\* C23: in DynamicList and in EditableTemplateList, adding a text that is
\* blank after trimming leaves the list unchanged and adding any other text
\* appends its trimmed form as the last element; an edit at index i changes
\* element i only; a remove at index i deletes element i only; the other
\* elements keep their order.
C23_ListOperations ==
    /\ [][DynamicListAddItem =>
            listItems' = IF Blank(newItemText) THEN listItems
                         ELSE Append(listItems, Trimmed(newItemText))]_vars
    /\ [][handleAdd =>
            items' = IF Blank(newItemText) THEN items
                     ELSE Append(items, Trimmed(newItemText))]_vars
    /\ [][\A index \in 0..(MaxListLen - 1) :
            /\ \A value \in ItemInputs :
                  /\ (component = DynamicList /\ DynamicListInputChange(index, value)) =>
                        listItems' = Replaced(listItems, index + 1, value)
                  /\ (component = EditableTemplateList /\ PlainChange(index, value)) =>
                        items' = Replaced(items, index + 1, value)
            /\ (\E partIndex \in 1..MaxLen, value \in ItemInputs :
                    component = EditableTemplateList /\ PlaceholderChange(index, partIndex, value)) =>
                  items' = Replaced(items, index + 1, items'[index + 1])
            /\ DynamicListRemoveItem(index) => listItems' = Deleted(listItems, index + 1)
            /\ handleRemove(index) => items' = Deleted(items, index + 1)]_vars

\* a preset was removed, an item was added from a text with blanks around it,
\* edited, and another one added
C23_Witness ==
    /\ component = DynamicList
    /\ listItems = << <<"q">>, <<"a">>, <<"b", " ", "b">> >>
    /\ newItemText = <<>>

\* C24: in the version of DynamicList that removes only at or beyond the
\* number of presets, after any adds, edits and removes the list begins with
\* the presets in their order and is at least as long as they are; a remove
\* asked for at an index below their number leaves the list unchanged.
C24_PresetsKept ==
    /\ [](component = DynamicListKeepingPresets =>
            /\ Len(listItems) >= Len(presetItems)
            /\ SubSeq(listItems, 1, Len(presetItems)) = presetItems)
    /\ [][\A index \in 0..(Len(presetItems) - 1) :
            KeepingPresetsRemoveItem(index) => listItems' = listItems]_vars

\* an item was added after the presets and edited
C24_Witness ==
    /\ component = DynamicListKeepingPresets
    /\ listItems = presetItems \o << <<"a">> >>
    /\ editable = <<FALSE, FALSE, TRUE>>

\* C27: in the version of DynamicList that removes any item, an item is shown
\* as an Input exactly when its index is at least the number of presets,
\* whatever its origin: when a preset is removed while there are added items,
\* the first added item moves to the last index below that number and is no
\* longer shown as an Input.
C27_EditableByIndex ==
    /\ [](component = DynamicList =>
            /\ Len(editable) = Len(listItems)
            /\ \A i \in 1..Len(listItems) : editable[i] <=> (i - 1 >= Len(presetItems)))
    /\ [][\A index \in 0..(Len(presetItems) - 1) :
            (DynamicListRemoveItem(index) /\ Len(listItems) > Len(presetItems)) =>
                /\ editable[Len(presetItems) + 1]
                /\ listItems'[Len(presetItems)] = listItems[Len(presetItems) + 1]
                /\ ~editable'[Len(presetItems)]]_vars

\* an added item stands where the last preset stood and is not shown as an
\* Input: the items below the number of presets are not the presets
C27_Witness ==
    /\ component = DynamicList
    /\ listItems = << <<"q">>, <<"c">> >>
    /\ editable = <<FALSE, FALSE>>

(***************************************************************************)
(* Properties of the form's lists and of its size limit                    *)
(***************************************************************************)
ListMessages ==
    [tour_fair_includes |-> "At least one include item is required",
     tour_fair_excludes |-> "At least one exclude item is required"]

\* C25: in the form whose lists allow removing any item, a list of includes
\* or excludes can be emptied; a submit attempt in that state sends no request
\* and reports the at-least-one-item error on that list, and adding one item
\* makes the list satisfy the form schema again.
C25_EmptyListRejected ==
    [][\A field \in ListFields :
         /\ (page = ReactPage /\ values[field].a = <<>> /\ submitCount' = submitCount + 1) =>
               /\ mutations' = mutations
               /\ isPending' = isPending
               /\ field \in DOMAIN errors'
               /\ errors'[field] = ListMessages[field]
         /\ (page = ReactPage /\ values[field].a = <<>> /\ Len(values'[field].a) = 1) =>
               /\ field \notin StrictFailing(values')
               /\ field \notin DOMAIN errors'
      ]_vars

\* the includes were emptied and a submit attempt was rejected for nothing else
C25_Witness ==
    /\ page = ReactPage
    /\ values.tour_fair_includes.a = <<>>
    /\ submitCount > 0
    /\ DOMAIN errors = {"tour_fair_includes"}
    /\ mutations = <<>>

\* the file of a payload is within the limit of 10 MB
WithinLimit(uploaded) == uploaded # Null /\ uploaded.o.size.n <= 10485760

\* C26: whatever the order of switching the size limit, attaching, removing
\* and submitting, a payload on its way to the endpoint whose
\* file_size_limit_enabled is true holds a file of at most 10,485,760 bytes
C26_LimitedPayloadsSmall ==
    /\ \A i \in 1..Len(mutations) :
         mutations[i].o.file_size_limit_enabled = Bool(TRUE) =>
             WithinLimit(mutations[i].o.uploaded_file)
    /\ \A h \in 1..Len(handlers) :
         handlers[h].data.file_size_limit_enabled = Bool(TRUE) =>
             /\ handlers[h].file.size <= 10485760
             /\ handlers[h].pc = "fetch" => WithinLimit(handlers[h].data.uploaded_file)

\* a request with the limit on and a file of exactly the limit is in flight
\* from the React form
C26_Witness ==
    /\ page = ReactPage
    /\ Len(mutations) = 1
    /\ mutations[1].o.file_size_limit_enabled = Bool(TRUE)
    /\ mutations[1].o.uploaded_file # Null
    /\ mutations[1].o.uploaded_file.o.size = Num(10485760)

(***************************************************************************)
(* Properties of an edited placeholder                                     *)
(***************************************************************************)
\* C28: after a placeholder of an item is changed to any text, the empty text
\* and texts with braces included, the item written back is segmented into
\* the parts it had, with the new text as the content of that placeholder and
\* every other part unchanged, so that it has as many placeholders as before
C28_EditKeepsPlaceholders ==
    [][\A index \in 0..(MaxTerms - 1), partIndex \in 1..MaxLen, value \in EditValues :
          PlaceholderChange(index, partIndex, value) =>
              /\ Len(PlaceholderContents(parts'[index + 1]))
                    = Len(PlaceholderContents(parts[index + 1]))
              /\ parts'[index + 1] = [parts[index + 1] EXCEPT ![partIndex].content = value]
      ]_vars

(***************************************************************************)
(* Properties of the endpoint's answers                                    *)
(***************************************************************************)
\* C29: a request is answered at most once and, when its handler has ended,
\* exactly once: with status 200 and success: true when its body is valid,
\* whether the forward succeeded, failed or was not configured, and with
\* status 400, success: false and message "Validation error" when it is not;
\* an answer with status 500 carries the message "Internal server error"; a
\* handler that has not ended has not answered yet.
C29_ExactlyOneResponse ==
    \A r \in Requests :
        /\ Len(sent[r]) <= 1
        /\ pc[r] = "done" <=> Len(sent[r]) = 1
        /\ pc[r] = "done" =>
              LET answer == sent[r][1]
              IN  /\ answer.status \in {200, 400, 500}
                  /\ IF SchemaValid(body[r])
                     THEN answer.status = 200 /\ answer.body.success = TRUE
                     ELSE /\ answer.status = 400
                          /\ answer.body.success = FALSE
                          /\ answer.body.message = "Validation error"
                  /\ answer.status = 500 =>
                        /\ answer.body.success = FALSE
                        /\ answer.body.message = "Internal server error"

\* one request was answered 400, another 200 after the target had answered
\* its forward
C29_Witness ==
    \E r1, r2 \in Requests :
        /\ pc[r1] = "done" /\ sent[r1][1].status = 400
        /\ pc[r2] = "done" /\ sent[r2][1].status = 200
        /\ fetchPromise[r2] = "fulfilled"
        /\ "webhookResponse" \in DOMAIN sent[r2][1].body

(***************************************************************************)
(* Properties of the extension check                                       *)
(***************************************************************************)
\* name ends, whatever the case of its letters, with suffix
EndsWith(name, suffix) ==
    /\ Len(name) >= Len(suffix)
    /\ toLowerCase(SubSeq(name, Len(name) - Len(suffix) + 1, Len(name))) = suffix

\* C30: a file handed to the check is turned down for its type exactly when
\* its name does not end, whatever the case, with a dot followed by one of the
\* accepted extensions; a name without any dot is turned down.
C30_SuffixWithDot ==
    [][ \A file \in Candidates :
          Handled(file) =>
              ((error' = Str(InvalidTypeMessage))
                  <=> ~(\E suffix \in acceptedTypes : EndsWith(file.name, suffix)))
      ]_vars

====
